---- MODULE Spec2Model ----
(***************************************************************************)
(* A model of the chain manager of the PoAI node (package core: Chain,     *)
(* BadgerStore, header.Header) and of the sync protocol of package net.    *)
(* Every handler is one atomic action; the nondeterminism of Go's map      *)
(* iteration order (checkReorg) is kept as a set of outcomes.              *)
(***************************************************************************)
EXTENDS Integers, Sequences, FiniteSets, TLC

VARIABLES chain, ops, last, net

vars == <<chain, ops, last, net>>

(***************************************************************************)
(* Bounds of the model.                                                    *)
(***************************************************************************)
MaxHeight == 3
MaxNonce == 1
MaxOps == 3

\* config.RetargetInterval is 2016; the model retargets every 3 blocks, so
\* that a retarget height lies within MaxHeight.
RetargetInterval == 3

(***************************************************************************)
(* Program constants.                                                      *)
(***************************************************************************)
TargetBlockSpacingSec == 600
MaxAdjustmentFactor == 4
DefaultBits == 1000
GenesisTarget == -5

(***************************************************************************)
(* big.Int pointers: <<>> is the nil pointer, <<v>> a number v.            *)
(***************************************************************************)
NilBits == <<>>
Big(v) == <<v>>
BitsRange == (-8 .. 8) \cup {DefaultBits}

(***************************************************************************)
(* Header.Hash: SHA3-256 over height, parent hash and nonce, and over      *)
(* nothing else. The digest is modelled collision free, as the triple.     *)
(***************************************************************************)
ZeroHash == <<>>
HeaderHash(hd) == <<hd.height, hd.parent, hd.nonce>>
Hash(b) == HeaderHash(b)

HashHeight(h) == h[1]

(***************************************************************************)
(* createGenesis's block.                                                  *)
(***************************************************************************)
Genesis(target) ==
  [height |-> 0, parent |-> ZeroHash, nonce |-> 0, lhat |-> 0,
   bits |-> Big(target), ts |-> 0]

(***************************************************************************)
(* Header.MarshalJSON / UnmarshalJSON: bits travels as a decimal string,   *)
(* "0" for a nil pointer; an empty string decodes to 0.                    *)
(***************************************************************************)
MarshalBits(bits) == IF bits # NilBits THEN ToString(bits[1]) ELSE "0"
UnmarshalBits(s) ==
  IF s # "" THEN Big(CHOOSE v \in BitsRange : ToString(v) = s) ELSE Big(0)

Encode(b) == [b EXCEPT !.bits = MarshalBits(b.bits)]
DecodeBlock(e) == [e EXCEPT !.bits = UnmarshalBits(e.bits)]

(***************************************************************************)
(* BadgerStore: the keys block:<h> and chain:tip. tip is <<>> when the key *)
(* is absent ("Key not found"). Update returns an error and writes nothing *)
(* on a store whose writes fail (writeFails); the callers log the error    *)
(* and go on.                                                              *)
(***************************************************************************)
EmptyStore == [data |-> <<>>, tip |-> <<>>, writeFails |-> FALSE]
FailingStore == [data |-> <<>>, tip |-> <<>>, writeFails |-> TRUE]

PutBlock(st, height, b) ==
  IF st.writeFails THEN st
  ELSE [st EXCEPT !.data = (height :> Encode(b)) @@ @, !.tip = <<height>>]

HasBlock(st, height) == height \in DOMAIN st.data
GetBlock(st, height) == DecodeBlock(st.data[height])

PruneBlocks(st, keepN, tip) ==
  LET minKeep == IF tip >= keepN THEN tip - keepN + 1 ELSE 0
  IN IF st.writeFails THEN st
     ELSE [st EXCEPT !.data = [h \in {k \in DOMAIN st.data : k >= minKeep} |-> st.data[h]]]

(***************************************************************************)
(* Go maps keyed by hash or height, as functions with a growing domain.    *)
(***************************************************************************)
MapRemove(m, k) == [x \in DOMAIN m \ {k} |-> m[x]]
MapPut(m, k, v) == (k :> v) @@ m
MapAppend(m, k, v) ==
  IF k \in DOMAIN m THEN [m EXCEPT ![k] = Append(@, v)] ELSE (k :> <<v>>) @@ m

SetMax(S) == CHOOSE x \in S : \A y \in S : y <= x

(***************************************************************************)
(* NewChain: load the heights 0..tip that the store holds, index them, and *)
(* create and persist genesis when nothing was loaded. The orphan pool and *)
(* the side branches of a new process are empty, and the callback          *)
(* RequestBlockByHash is nil until the P2P node is wired to the chain;     *)
(* requests holds the parent hashes of the callback's goroutines that have *)
(* been started and have not run yet. subscribers holds, for each channel  *)
(* SubscribeToHeadChanges returned, the number of notifications that wait  *)
(* in its buffer of one.                                                   *)
(***************************************************************************)
LoadedHeights(st) ==
  IF st.tip = <<>> THEN {} ELSE {h \in 0 .. st.tip[1] : HasBlock(st, h)}

IndexOf(blocks) ==
  [hh \in {Hash(blocks[h]) : h \in DOMAIN blocks} |->
     blocks[CHOOSE h \in DOMAIN blocks : Hash(blocks[h]) = hh]]

createGenesis(c) ==
  LET genesis == Genesis(c.genesisTarget)
  IN [c EXCEPT !.blocks = MapPut(@, 0, genesis),
               !.blockHashIndex = MapPut(@, Hash(genesis), genesis),
               !.head = 0,
               !.store = PutBlock(@, 0, genesis)]

NewChain(st, target, prune) ==
  LET loaded == LoadedHeights(st)
      blocks == [h \in loaded |-> GetBlock(st, h)]
      c == [blocks |-> blocks,
            blockHashIndex |-> IndexOf(blocks),
            head |-> SetMax(loaded \cup {0}),
            store |-> st,
            genesisTarget |-> target,
            pruneDepth |-> prune,
            OrphanPool |-> <<>>,
            sideBranches |-> <<>>,
            RequestBlockByHash |-> FALSE,
            requests |-> {},
            wedged |-> FALSE,
            subscribers |-> <<>>]
  IN IF loaded = {} THEN createGenesis(c) ELSE c

(***************************************************************************)
(* ReindexFromDB: both indexes are rebuilt from the store; head is only    *)
(* ever raised. With no tip key the indexes stay empty.                    *)
(***************************************************************************)
ReindexFromDB(c) ==
  LET loaded == LoadedHeights(c.store)
      blocks == [h \in loaded |-> GetBlock(c.store, h)]
  IN [c EXCEPT !.blocks = blocks,
               !.blockHashIndex = IndexOf(blocks),
               !.head = SetMax(loaded \cup {c.head})]

(***************************************************************************)
(* HeaderByHeight: a nil or zero bits is replaced by 1000 in the block     *)
(* held in memory; a block found only in the store is decoded and put in   *)
(* by_height (not in by_hash). hdr is <<>> for a nil result.               *)
(***************************************************************************)
FixBits(b) ==
  IF b.bits = NilBits \/ b.bits = Big(0) THEN [b EXCEPT !.bits = Big(DefaultBits)] ELSE b

HeaderByHeight(c, height) ==
  IF height \in DOMAIN c.blocks
  THEN LET blk == FixBits(c.blocks[height])
       IN [c |-> [c EXCEPT !.blocks[height] = blk], hdr |-> <<blk>>]
  ELSE IF HasBlock(c.store, height)
  THEN LET blk == FixBits(GetBlock(c.store, height))
       IN [c |-> [c EXCEPT !.blocks = MapPut(@, height, blk)], hdr |-> <<blk>>]
  ELSE [c |-> c, hdr |-> <<>>]

(***************************************************************************)
(* Adjust: the retarget arithmetic on tip.Bits. big.Int.Div is Euclidean,  *)
(* which for the positive divisor here is the floor, as \div is. Spans are *)
(* whole seconds. The hardest target, -2^63 in the source, is -2^16 here:  *)
(* the model's integers have 32 bits.                                      *)
(***************************************************************************)
MinTarget == -1
MaxTarget == -(2^16)

\* Adjust without the error for a missing first header.
AdjustSilent(c, tip) ==
  IF tip.bits = NilBits THEN [c |-> c, bits |-> Big(1), err |-> TRUE]
  ELSE [c |-> c, bits |-> tip.bits, err |-> FALSE]

\* Adjust without the bound on the hardest target.
AdjustNoFloor(c, tip) ==
  IF tip.bits = NilBits THEN [c |-> c, bits |-> Big(1), err |-> TRUE]
  ELSE IF tip.height < RetargetInterval THEN [c |-> c, bits |-> tip.bits, err |-> FALSE]
  ELSE
    LET r == HeaderByHeight(c, tip.height - RetargetInterval + 1)
    IN IF r.hdr = <<>> THEN [c |-> r.c, bits |-> tip.bits, err |-> TRUE]
       ELSE
         LET first == r.hdr[1]
             expected == RetargetInterval * TargetBlockSpacingSec
             minSpan == expected \div MaxAdjustmentFactor
             maxSpan == expected * MaxAdjustmentFactor
             span == tip.ts - first.ts
             actual == IF span < minSpan THEN minSpan
                       ELSE IF span > maxSpan THEN maxSpan ELSE span
             newT == (tip.bits[1] * actual) \div expected
         IN [c |-> r.c, bits |-> Big(IF newT > MinTarget THEN MinTarget ELSE newT),
             err |-> FALSE]

Adjust(c, tip) ==
  IF tip.bits = NilBits THEN [c |-> c, bits |-> Big(1), err |-> TRUE]
  ELSE IF tip.height < RetargetInterval THEN [c |-> c, bits |-> tip.bits, err |-> FALSE]
  ELSE
    LET r == HeaderByHeight(c, tip.height - RetargetInterval + 1)
    IN IF r.hdr = <<>> THEN [c |-> r.c, bits |-> tip.bits, err |-> TRUE]
       ELSE
         LET first == r.hdr[1]
             expected == RetargetInterval * TargetBlockSpacingSec
             minSpan == expected \div MaxAdjustmentFactor
             maxSpan == expected * MaxAdjustmentFactor
             span == tip.ts - first.ts
             actual == IF span < minSpan THEN minSpan
                       ELSE IF span > maxSpan THEN maxSpan ELSE span
             newT == (tip.bits[1] * actual) \div expected
             capped == IF newT > MinTarget THEN MinTarget ELSE newT
             sat == IF capped < MaxTarget THEN MaxTarget ELSE capped
         IN [c |-> r.c, bits |-> Big(sat), err |-> FALSE]

(***************************************************************************)
(* addToOrphanPool, addToSideBranch: both file the block under its own     *)
(* parent hash, at the end of the slice, whatever the slice holds.         *)
(* addToOrphanPool then starts the callback, when there is one.            *)
(***************************************************************************)
addToOrphanPool(c, block) ==
  [c EXCEPT !.OrphanPool = MapAppend(@, block.parent, block),
            !.requests = IF c.RequestBlockByHash THEN @ \cup {block.parent} ELSE @]

\* The block filed under its own hash.
addToSideBranchByHash(c, block) ==
  [c EXCEPT !.sideBranches = MapAppend(@, Hash(block), block)]

\* The block filed under its parent in the orphan pool instead.
addToSideBranchAsOrphan(c, block) ==
  [c EXCEPT !.OrphanPool = MapAppend(@, block.parent, block)]

addToSideBranch(c, block) ==
  [c EXCEPT !.sideBranches = MapAppend(@, block.parent, block)]

(***************************************************************************)
(* reorgToBranch: head is set to the height before the first branch block, *)
(* then every branch block is put in by_height (only there) and persisted, *)
(* head following the block just applied.                                  *)
(***************************************************************************)
RECURSIVE applyBranch(_, _)
applyBranch(c, branch) ==
  IF branch = <<>> THEN c
  ELSE LET blk == Head(branch)
       IN applyBranch([c EXCEPT !.blocks = MapPut(@, blk.height, blk),
                                !.head = blk.height,
                                !.store = PutBlock(@, blk.height, blk)],
                      Tail(branch))

reorgToBranch(c, branch) ==
  applyBranch([c EXCEPT !.head = branch[1].height - 1], branch)

(***************************************************************************)
(* checkReorg: every entry of sideBranches is visited once, in the order   *)
(* of Go's map iteration (any order); an entry whose last block is above   *)
(* head is applied and deleted. The result is the set of possible chains.  *)
(***************************************************************************)
visitBranch(c, parentHash) ==
  LET branch == c.sideBranches[parentHash]
      branchTip == branch[Len(branch)]
  IN IF branchTip.height > c.head
     THEN [reorgToBranch(c, branch) EXCEPT !.sideBranches = MapRemove(@, parentHash)]
     ELSE c

RECURSIVE checkReorgFrom(_, _)
checkReorgFrom(c, keys) ==
  IF keys = {} THEN {c}
  ELSE UNION {checkReorgFrom(visitBranch(c, k), keys \ {k}) : k \in keys}

checkReorg(c) == checkReorgFrom(c, DOMAIN c.sideBranches)

(***************************************************************************)
(* importBlockInternal up to its call of tryImportOrphans. The outcomes    *)
(* are records: the chain, the error kind returned ("Ok" for nil) and      *)
(* whether the import reached the promotion of orphans.                    *)
(***************************************************************************)
IsRetarget(height) == height % RetargetInterval = 0 /\ height > 0

ParentsOf(c, block) ==
  {h \in DOMAIN c.blocks : Hash(c.blocks[h]) = block.parent}

\* SubscribeToHeadChanges: one more channel, empty, with room for one.
SubscribeToHeadChanges(c) == [c EXCEPT !.subscribers = Append(@, 0)]

\* A notification put into every channel, room or not.
notifyQueued(c) == [c EXCEPT !.subscribers = [i \in DOMAIN @ |-> @[i] + 1]]

\* notifyHeadChange: every channel that has room takes one notification.
notifyHeadChange(c) == [c EXCEPT !.subscribers = [i \in DOMAIN @ |-> 1]]

acceptBlock(c, block) ==
  LET c1 == [c EXCEPT !.blocks = MapPut(@, block.height, block),
                      !.blockHashIndex = MapPut(@, Hash(block), block),
                      !.head = block.height,
                      !.store = PutBlock(@, block.height, block)]
      c2 == IF c1.pruneDepth > 0
            THEN [c1 EXCEPT !.store = PruneBlocks(@, c1.pruneDepth, c1.head)]
            ELSE c1
  IN {[c |-> c3, res |-> "Ok", promote |-> TRUE] : c3 \in checkReorg(notifyHeadChange(c2))}

importCore(c, block) ==
  IF block.height \in DOMAIN c.blocks
  THEN IF Hash(c.blocks[block.height]) # Hash(block)
          /\ block.parent # Hash(c.blocks[c.head])
       THEN {[c |-> c1, res |-> "Ok", promote |-> FALSE] :
               c1 \in checkReorg(addToSideBranch(c, block))}
       ELSE {[c |-> c, res |-> "Duplicate", promote |-> FALSE]}
  ELSE IF ParentsOf(c, block) = {}
  THEN {[c |-> addToOrphanPool(c, block), res |-> "OrphanQueued", promote |-> FALSE]}
  ELSE
    LET parent == c.blocks[CHOOSE h \in ParentsOf(c, block) : TRUE]
    IN IF parent.height # block.height - 1
       THEN {[c |-> addToSideBranch(c, block), res |-> "SideBranched", promote |-> FALSE]}
       ELSE IF IsRetarget(block.height)
       THEN LET a == Adjust(c, block)
            IN IF a.err
               THEN {[c |-> a.c, res |-> "DifficultyError", promote |-> FALSE]}
               ELSE acceptBlock(a.c, [block EXCEPT !.bits = a.bits])
       ELSE acceptBlock(c, [block EXCEPT !.bits = parent.bits])

(***************************************************************************)
(* tryImportOrphans, entered with the guard orphanImportInProgress free.   *)
(* The entry of the pool is removed; its blocks are classified against     *)
(* by_hash before any of them is imported; each import is a nested         *)
(* ImportBlock, whose own tryImportOrphans finds the guard set and         *)
(* returns at once, so that a nested import is importCore alone.           *)
(***************************************************************************)
RECURSIVE importAll(_, _)
importAll(cs, blocksToImport) ==
  IF blocksToImport = <<>> THEN cs
  ELSE importAll(UNION {{o.c : o \in importCore(c, Head(blocksToImport))} : c \in cs},
                 Tail(blocksToImport))

RECURSIVE sideBranchAll(_, _)
sideBranchAll(c, bs) ==
  IF bs = <<>> THEN c ELSE sideBranchAll(addToSideBranch(c, Head(bs)), Tail(bs))

\* tryImportOrphans with the imports left out: the entry is removed from the
\* pool and its blocks are forgotten.
tryImportOrphansForget(c, parentHash) ==
  {[c EXCEPT !.OrphanPool = MapRemove(@, parentHash)]}

tryImportOrphans(c, parentHash) ==
  IF parentHash \notin DOMAIN c.OrphanPool THEN {c}
  ELSE
    LET orphans == c.OrphanPool[parentHash]
        c1 == [c EXCEPT !.OrphanPool = MapRemove(@, parentHash)]
        Found(o) == o.parent \in DOMAIN c1.blockHashIndex
        Right(o) == Found(o) /\ c1.blockHashIndex[o.parent].height = o.height - 1
        Wrong(o) == Found(o) /\ ~Right(o)
        toImport == SelectSeq(orphans, Right)
        toSideBranch == SelectSeq(orphans, Wrong)
    IN {sideBranchAll(c2, toSideBranch) : c2 \in importAll({c1}, toImport)}

(***************************************************************************)
(* ImportBlock: the whole call, promotion of orphans included.             *)
(***************************************************************************)
ImportBlock(c, block) ==
  UNION {IF o.promote
         THEN {[c |-> c2, res |-> o.res] : c2 \in tryImportOrphans(o.c, Hash(block))}
         ELSE {[c |-> o.c, res |-> o.res]} : o \in importCore(c, block)}

(***************************************************************************)
(* ScanOrphanPool: the pool is copied and emptied; a goroutine then walks  *)
(* the copy, entry by entry in map order, holding the chain lock in read   *)
(* mode. An orphan whose parent is in by_hash at the wrong height goes to  *)
(* the side branches, one whose parent is unknown is dropped with the      *)
(* copy, and for one whose parent is at the predecessor height the         *)
(* goroutine calls ImportBlock, which waits for the write lock behind the  *)
(* goroutine's own read lock: the walk stops there and the chain lock is   *)
(* never free again (wedged).                                              *)
(***************************************************************************)
RECURSIVE scanGroup(_, _)
scanGroup(c, orphans) ==
  IF orphans = <<>> \/ c.wedged THEN c
  ELSE LET orphan == Head(orphans)
           found == orphan.parent \in DOMAIN c.blockHashIndex
       IN IF found /\ c.blockHashIndex[orphan.parent].height = orphan.height - 1
          THEN [c EXCEPT !.wedged = TRUE]
          ELSE IF found
          THEN scanGroup(addToSideBranch(c, orphan), Tail(orphans))
          ELSE scanGroup(c, Tail(orphans))

RECURSIVE scanGroups(_, _, _)
scanGroups(c, pool, keys) ==
  IF keys = {} \/ c.wedged THEN {c}
  ELSE UNION {scanGroups(scanGroup(c, pool[k]), pool, keys \ {k}) : k \in keys}

ScanOrphanPool(c) ==
  IF DOMAIN c.OrphanPool = {} THEN {c}
  ELSE scanGroups([c EXCEPT !.OrphanPool = <<>>], c.OrphanPool, DOMAIN c.OrphanPool)

(***************************************************************************)
(* The blocks a peer, the miner or the file drop can hand to ImportBlock:  *)
(* any height, any known hash as parent, any nonce, any loss claim and     *)
(* any bits.                                                               *)
(***************************************************************************)
GenesisHash == Hash(Genesis(GenesisTarget))

RECURSIVE HashesAt(_)
HashesBelow(h) == {GenesisHash} \cup UNION {HashesAt(k) : k \in 1 .. h - 1}
HashesAt(h) == {<<h, p, n>> : p \in HashesBelow(h), n \in 0 .. MaxNonce}

Payloads ==
  {[lhat |-> GenesisTarget - 1, bits |-> Big(GenesisTarget)],
   [lhat |-> GenesisTarget - 1, bits |-> Big(0)],
   [lhat |-> GenesisTarget + 1, bits |-> NilBits]}

MkBlock(hh, pl) ==
  [height |-> hh[1], parent |-> hh[2], nonce |-> hh[3],
   lhat |-> pl.lhat, bits |-> pl.bits, ts |-> 0]

Universe ==
  {MkBlock(hh, pl) : hh \in UNION {HashesAt(h) : h \in 1 .. MaxHeight}, pl \in Payloads}

PruneDepths == {0, 2}

(***************************************************************************)
(* The node: a chain over a store, as main opens it (NewChain, then        *)
(* ReindexFromDB) on an empty data directory. last is what the last call   *)
(* returned. No P2P node is wired to this chain (net stays empty).         *)
(***************************************************************************)
NoBlock == <<>>
NoNet == <<>>

Init ==
  /\ \E pd \in PruneDepths : \E st \in {EmptyStore, FailingStore} :
       chain = ReindexFromDB(NewChain(st, GenesisTarget, pd))
  /\ ops = 0
  /\ last = [op |-> "start", blk |-> NoBlock, res |-> "Ok"]
  /\ net = NoNet

Import ==
  /\ ops < MaxOps
  /\ ~chain.wedged
  /\ \E block \in Universe : \E o \in ImportBlock(chain, block) :
       /\ chain' = o.c
       /\ last' = [op |-> "import", blk |-> <<block>>, res |-> o.res]
  /\ ops' = ops + 1
  /\ UNCHANGED net

HeaderAt ==
  /\ ops < MaxOps
  /\ ~chain.wedged
  /\ \E height \in 0 .. MaxHeight :
       LET r == HeaderByHeight(chain, height)
       IN /\ chain' = r.c
          /\ last' = [op |-> "header_at", blk |-> r.hdr,
                      res |-> IF r.hdr = <<>> THEN "nil" ELSE "Ok"]
  /\ ops' = ops + 1
  /\ UNCHANGED net

Scan ==
  /\ ops < MaxOps
  /\ ~chain.wedged
  /\ \E c \in ScanOrphanPool(chain) : chain' = c
  /\ last' = [op |-> "scan_orphans", blk |-> NoBlock, res |-> "Ok"]
  /\ ops' = ops + 1
  /\ UNCHANGED net

Restart ==
  /\ ops < MaxOps
  /\ chain' = ReindexFromDB(NewChain(chain.store, chain.genesisTarget, chain.pruneDepth))
  /\ last' = [op |-> "restart", blk |-> NoBlock, res |-> "Ok"]
  /\ ops' = ops + 1
  /\ UNCHANGED net

Next == Import \/ HeaderAt \/ Scan \/ Restart

Spec == Init /\ [][Next]_vars

(***************************************************************************)
(* The main chain: the blocks of by_height at the heights 0..head.         *)
(***************************************************************************)
MainHeights(c) == {h \in DOMAIN c.blocks : h <= c.head}

SeqHashes(m) ==
  UNION {{<<k, i>> : i \in 1 .. Len(m[k])} : k \in DOMAIN m}

\* C3: every main-chain block above genesis has its parent in by_hash, one
\* height below it.
C3_ParentLinkage ==
  \A h \in MainHeights(chain) : h > 0 =>
    LET b == chain.blocks[h]
    IN /\ b.parent \in DOMAIN chain.blockHashIndex
       /\ chain.blockHashIndex[b.parent].height = b.height - 1

\* C4: every height of 0..head has a block in by_height, and by_hash has
\* that block's hash as a key.
C4_IndexComplete ==
  \A h \in 0 .. chain.head :
    /\ h \in DOMAIN chain.blocks
    /\ Hash(chain.blocks[h]) \in DOMAIN chain.blockHashIndex

\* C5: between calls (no import or promotion in progress), no entry of the
\* orphan pool is filed under a hash that by_hash holds.
C5_OrphansDrained ==
  \A k \in DOMAIN chain.OrphanPool : k \notin DOMAIN chain.blockHashIndex

\* C6: a block hash occurs at most once over the main chain, the side
\* branches and the orphan pool together.
Occurrences(c, hh) ==
  Cardinality({h \in MainHeights(c) : Hash(c.blocks[h]) = hh})
  + Cardinality({p \in SeqHashes(c.sideBranches) : Hash(c.sideBranches[p[1]][p[2]]) = hh})
  + Cardinality({p \in SeqHashes(c.OrphanPool) : Hash(c.OrphanPool[p[1]][p[2]]) = hh})

HeldHashes(c) ==
  {Hash(c.blocks[h]) : h \in MainHeights(c)}
  \cup {Hash(c.sideBranches[p[1]][p[2]]) : p \in SeqHashes(c.sideBranches)}
  \cup {Hash(c.OrphanPool[p[1]][p[2]]) : p \in SeqHashes(c.OrphanPool)}

C6_ExclusiveMembership ==
  \A hh \in HeldHashes(chain) : Occurrences(chain, hh) <= 1

\* C7: the header persisted for a main-chain height, and the header that
\* header_at returns, have bits that is neither nil nor zero.
GoodBits(bits) == bits # NilBits /\ bits # Big(0)

C7_NonZeroBits ==
  /\ \A h \in 0 .. chain.head :
       HasBlock(chain.store, h) => GoodBits(GetBlock(chain.store, h).bits)
  /\ (last.op = "header_at" /\ last.res = "Ok") => GoodBits(last.blk[1].bits)

\* C9: every main-chain block above genesis has loss_claim <= bits.
C9_OnlyValidBlocks ==
  \A h \in MainHeights(chain) : h > 0 =>
    LET b == chain.blocks[h]
    IN b.bits # NilBits /\ b.lhat <= b.bits[1]

(***************************************************************************)
(* What a step of Import was called with, and the state it was called in.  *)
(***************************************************************************)
ImportStep == ops' = ops + 1 /\ last'.op = "import"
Imported == last'.blk[1]

InNoIndex(c, hh) ==
  /\ hh \notin DOMAIN c.blockHashIndex
  /\ \A h \in DOMAIN c.blocks : Hash(c.blocks[h]) # hh

OnChainBelow(c, block) ==
  \E h \in DOMAIN c.blocks :
    Hash(c.blocks[h]) = block.parent /\ c.blocks[h].height = block.height - 1

Buffered(pool, hh) == IF hh \in DOMAIN pool THEN pool[hh] ELSE <<>>

IsHead(c, block) ==
  /\ c.head = block.height
  /\ block.height \in DOMAIN c.blocks
  /\ Hash(c.blocks[block.height]) = Hash(block)

NoBranchAbove(c, height) ==
  \A k \in DOMAIN c.sideBranches :
    c.sideBranches[k][Len(c.sideBranches[k])].height <= height

RECURSIVE ImportSeq(_, _)
ImportSeq(cs, blocksInOrder) ==
  IF blocksInOrder = <<>> THEN cs
  ELSE ImportSeq(UNION {{o.c : o \in ImportBlock(c, Head(blocksInOrder))} : c \in cs},
                 Tail(blocksInOrder))

\* A main chain of the heights 0..head, each block the child of the one
\* below, with nothing buffered.
CleanMain(c) ==
  /\ ~c.wedged
  /\ DOMAIN c.blocks = 0 .. c.head
  /\ \A h \in 1 .. c.head : c.blocks[h].parent = Hash(c.blocks[h - 1])
  /\ \A h \in 0 .. c.head : Hash(c.blocks[h]) \in DOMAIN c.blockHashIndex
  /\ DOMAIN c.OrphanPool = {} /\ DOMAIN c.sideBranches = {}

\* The branches b'(from), ..., b'(to) on top of the hash parentHash.
RECURSIVE BranchHashes(_, _, _)
BranchHashes(parentHash, from, to) ==
  IF from > to THEN {<<>>}
  ELSE UNION {{<<<<from, parentHash, n>>>> \o rest :
                 rest \in BranchHashes(<<from, parentHash, n>>, from + 1, to)} :
              n \in 0 .. MaxNonce}

\* C2: on a main chain 0..n with nothing buffered, importing in ascending
\* order a branch f+1..m (f < n < m) that forks off by_height[f] ends with
\* head = m and the branch blocks at the heights f+1..m.
C2_ReorgToLongest ==
  CleanMain(chain) =>
    \A f \in 0 .. chain.head - 1 : \A m \in chain.head + 1 .. MaxHeight :
      \A bh \in BranchHashes(Hash(chain.blocks[f]), f + 1, m) : \A pl \in Payloads :
        bh[1] # Hash(chain.blocks[f + 1]) =>
          \A c \in ImportSeq({chain}, [i \in 1 .. Len(bh) |-> MkBlock(bh[i], pl)]) :
            /\ c.head = m
            /\ \A i \in 1 .. Len(bh) :
                 bh[i][1] \in DOMAIN c.blocks /\ Hash(c.blocks[bh[i][1]]) = bh[i]

(***************************************************************************)
(* What C8 compares of a chain: head, by_height, by_hash, the orphan pool. *)
(***************************************************************************)
ChainView(c) ==
  [head |-> c.head, blocks |-> c.blocks,
   blockHashIndex |-> c.blockHashIndex, OrphanPool |-> c.OrphanPool]

ExtendsHead(c, P) ==
  /\ c.head \in DOMAIN c.blocks
  /\ P.height = c.head + 1
  /\ P.parent = Hash(c.blocks[c.head])

ChildOf(B, P) == B.parent = Hash(P) /\ B.height = P.height + 1

\* C8: for P extending the head and its child B, importing P then B and
\* importing B then P end in the same head, by_height, by_hash and orphan
\* pool, and the pool is empty when it was empty before. Checked in every
\* state that leaves room for the two imports within MaxOps.
C8_Confluence ==
  (ops + 2 <= MaxOps /\ ~chain.wedged) =>
    \A P \in Universe : ExtendsHead(chain, P) =>
      \A B \in Universe : ChildOf(B, P) =>
        LET pb == {ChainView(c) : c \in ImportSeq({chain}, <<P, B>>)}
            bp == {ChainView(c) : c \in ImportSeq({chain}, <<B, P>>)}
        IN /\ pb = bp
           /\ DOMAIN chain.OrphanPool = {} =>
                \A v \in pb : DOMAIN v.OrphanPool = {}

(***************************************************************************)
(* Two nodes on one pubsub: a published message is handed to the           *)
(* subscription of every node, the publisher's included (only the block    *)
(* gossip handler drops its own messages). inbox holds the messages a      *)
(* node's subscriptions have not handed to their handlers yet; a message   *)
(* that waits twice is held once. sent is the set of messages the node     *)
(* has published itself.                                                   *)
(***************************************************************************)
Nodes == {"short", "long"}

MaxServe == 512
MaxCopies == 2
MaxLongHead == 2

NewHeadMsg(b) ==
  [topic |-> "newhead", height |-> b.height, hash |-> Hash(b), parent |-> b.parent]
BlockRequest(from, to) == [topic |-> "blockreq", from |-> from, to |-> to]
BlockResponse(blocks) == [topic |-> "blockresp", blocks |-> blocks]

Publish(nt, from, msg) ==
  [n \in Nodes |-> [nt[n] EXCEPT !.inbox = @ \cup {msg},
                                 !.sent = IF n = from THEN @ \cup {msg} ELSE @]]

Waiting(n, topic) == {msg \in net[n].inbox : msg.topic = topic}

Taken(n, msg) == [net EXCEPT ![n].inbox = @ \ {msg}]

(***************************************************************************)
(* The slices of the orphan pool and of the side branches grow by one copy *)
(* for every delivery of the same block, without end. A run of more than   *)
(* MaxCopies successive copies of one block in a slice is held as          *)
(* MaxCopies copies.                                                       *)
(***************************************************************************)
RECURSIVE SquashSeq(_, _)
SquashSeq(acc, rest) ==
  IF rest = <<>> THEN acc
  ELSE LET x == Head(rest)
           n == Len(acc)
           full == n >= MaxCopies /\ \A i \in n - MaxCopies + 1 .. n : acc[i] = x
       IN SquashSeq(IF full THEN acc ELSE Append(acc, x), Tail(rest))

Squash(c) ==
  [c EXCEPT !.OrphanPool = [k \in DOMAIN @ |-> SquashSeq(<<>>, @[k])],
            !.sideBranches = [k \in DOMAIN @ |-> SquashSeq(<<>>, @[k])]]

(***************************************************************************)
(* NewP2PNode's ticker: the head is announced when its height differs from *)
(* the height announced last. (main's announcer publishes the same message *)
(* for a block that import accepted; no node mines here, so nothing        *)
(* travels on the block gossip topic.)                                     *)
(***************************************************************************)
TickAnnounce(n) ==
  LET c == net[n].chain
      h == c.head
  IN /\ ~c.wedged
     /\ h # net[n].lastHeight
     /\ net' = LET nt == [net EXCEPT ![n].lastHeight = h]
               IN IF h \in DOMAIN c.blocks THEN Publish(nt, n, NewHeadMsg(c.blocks[h])) ELSE nt
     /\ UNCHANGED <<chain, ops, last>>

(***************************************************************************)
(* handleNewHead: a head above the local one is answered by a request for  *)
(* the heights local head + 1 .. announced height.                         *)
(***************************************************************************)
handleNewHead(n) ==
  \E msg \in Waiting(n, "newhead") :
    LET best == net[n].chain.head
        nt == [Taken(n, msg) EXCEPT ![n].bestKnownHeight =
                 IF msg.height > @ THEN msg.height ELSE @]
    IN /\ ~net[n].chain.wedged
       /\ net' = IF msg.height = 0 THEN Taken(n, msg)
                 ELSE IF msg.height <= best THEN nt
                 ELSE Publish(nt, n, BlockRequest(best + 1, msg.height))
       /\ UNCHANGED <<chain, ops, last>>

(***************************************************************************)
(* handleBlockReq: the blocks by_height holds at the heights from..to, in  *)
(* ascending order, are published. to - from is computed in uint64, so a   *)
(* to below from counts as a span above MaxServe.                          *)
(***************************************************************************)
RECURSIVE ServeFrom(_, _, _)
ServeFrom(c, h, to) ==
  IF h > to THEN <<>>
  ELSE (IF h \in DOMAIN c.blocks THEN <<Encode(c.blocks[h])>> ELSE <<>>)
         \o ServeFrom(c, h + 1, to)

handleBlockReq(n) ==
  \E msg \in Waiting(n, "blockreq") :
    LET c == net[n].chain
        to == IF msg.to < msg.from \/ msg.to - msg.from > MaxServe
              THEN msg.from + MaxServe ELSE msg.to
        top == IF to > SetMax(DOMAIN c.blocks) THEN SetMax(DOMAIN c.blocks) ELSE to
    IN /\ ~c.wedged
       /\ net' = Publish(Taken(n, msg), n, BlockResponse(ServeFrom(c, msg.from, top)))
       /\ UNCHANGED <<chain, ops, last>>

(***************************************************************************)
(* handleBlockResp: every block of the response is imported, in order,     *)
(* whatever the imports before it returned.                                *)
(***************************************************************************)
RECURSIVE ImportEach(_, _)
ImportEach(cs, blocksInOrder) ==
  IF blocksInOrder = <<>> THEN cs
  ELSE ImportEach(UNION {{o.c : o \in ImportBlock(c, DecodeBlock(Head(blocksInOrder)))} : c \in cs},
                  Tail(blocksInOrder))

handleBlockResp(n) ==
  \E msg \in Waiting(n, "blockresp") :
    /\ ~net[n].chain.wedged
    /\ \E c \in ImportEach({net[n].chain}, msg.blocks) :
         net' = [Taken(n, msg) EXCEPT ![n].chain = Squash(c)]
    /\ UNCHANGED <<chain, ops, last>>

(***************************************************************************)
(* RequestBlockByHash, in the goroutine addToOrphanPool started: nothing   *)
(* when a block of 0..head has the hash; the heights 1..h when the first   *)
(* orphan filed under the hash has a height h > 1; the last 100 heights    *)
(* up to head otherwise.                                                   *)
(***************************************************************************)
RequestBlockByHash(n) ==
  \E parentHash \in net[n].chain.requests :
    LET c == net[n].chain
        nt == [net EXCEPT ![n].chain.requests = @ \ {parentHash}]
        have == \E h \in 0 .. c.head : h \in DOMAIN c.blocks /\ Hash(c.blocks[h]) = parentHash
        found == parentHash \in DOMAIN c.OrphanPool
        orphanHeight == IF found THEN c.OrphanPool[parentHash][1].height ELSE 0
        best == c.head
    IN /\ ~c.wedged
       /\ net' = IF have THEN nt
                 ELSE IF found /\ orphanHeight > 1
                 THEN Publish(nt, n, BlockRequest(1, orphanHeight))
                 ELSE Publish(nt, n, BlockRequest(IF best > 100 THEN best - 100 ELSE 0, best))
       /\ UNCHANGED <<chain, ops, last>>

(***************************************************************************)
(* StartOrphanPoolScanner's ticker: ScanOrphanPool on a pool that holds    *)
(* something.                                                              *)
(***************************************************************************)
ScanTick(n) ==
  /\ ~net[n].chain.wedged
  /\ DOMAIN net[n].chain.OrphanPool # {}
  /\ \E c \in ScanOrphanPool(net[n].chain) : net' = [net EXCEPT ![n].chain = Squash(c)]
  /\ UNCHANGED <<chain, ops, last>>

(***************************************************************************)
(* The two nodes start from the same genesis, with the same blocks up to   *)
(* the height f, and each has mined its own blocks from there: the short   *)
(* node up to n, the long one up to m, f <= n < m. With f = n the short    *)
(* node lags: its chain is a prefix of the long one, which then reaches up *)
(* to MaxHeight; two chains that fork reach up to MaxLongHead.             *)
(***************************************************************************)
Mined(hh) == MkBlock(hh, [lhat |-> GenesisTarget - 1, bits |-> Big(GenesisTarget)])

RECURSIVE MinedBranch(_, _, _, _)
MinedBranch(parentHash, from, to, nonce) ==
  IF from > to THEN <<>>
  ELSE <<Mined(<<from, parentHash, nonce>>)>>
         \o MinedBranch(<<from, parentHash, nonce>>, from + 1, to, nonce)

TipHash(parentHash, blocksInOrder) ==
  IF blocksInOrder = <<>> THEN parentHash ELSE Hash(blocksInOrder[Len(blocksInOrder)])

Forks ==
  {t \in (0 .. MaxHeight) \X (0 .. MaxHeight) \X (0 .. MaxHeight) :
     /\ t[1] <= t[2] /\ t[2] < t[3]
     /\ t[1] < t[2] => t[3] <= MaxLongHead}

StartNode(blocksInOrder) ==
  LET wired == [NewChain(EmptyStore, GenesisTarget, 0) EXCEPT !.RequestBlockByHash = TRUE]
  IN [chain |-> CHOOSE c \in ImportSeq({wired}, blocksInOrder) : TRUE,
      lastHeight |-> 0, bestKnownHeight |-> 0, inbox |-> {}, sent |-> {}]

NetInit ==
  /\ chain = NewChain(EmptyStore, GenesisTarget, 0)
  /\ ops = 0
  /\ last = [op |-> "start", blk |-> NoBlock, res |-> "Ok"]
  /\ \E t \in Forks :
       LET common == MinedBranch(GenesisHash, 1, t[1], 0)
           forkHash == TipHash(GenesisHash, common)
       IN net = [n \in Nodes |->
                   IF n = "short"
                   THEN StartNode(common \o MinedBranch(forkHash, t[1] + 1, t[2], 0))
                   ELSE StartNode(common \o MinedBranch(forkHash, t[1] + 1, t[3], 1))]

NetNext ==
  \E n \in Nodes :
    \/ TickAnnounce(n)
    \/ handleNewHead(n)
    \/ handleBlockReq(n)
    \/ handleBlockResp(n)
    \/ RequestBlockByHash(n)
    \/ ScanTick(n)

(***************************************************************************)
(* Every goroutine that has something to do runs: the tickers, the three   *)
(* subscription handlers and the callback's goroutines of each node.       *)
(***************************************************************************)
NetFairness ==
  \A n \in Nodes :
    /\ WF_vars(TickAnnounce(n))
    /\ WF_vars(handleNewHead(n))
    /\ WF_vars(handleBlockReq(n))
    /\ WF_vars(handleBlockResp(n))
    /\ WF_vars(RequestBlockByHash(n))
    /\ WF_vars(ScanTick(n))

NetSpec == NetInit /\ [][NetNext]_vars /\ NetFairness

MainChain(c) == [h \in {k \in DOMAIN c.blocks : k <= c.head} |-> c.blocks[h]]

Converged ==
  /\ net["short"].chain.head = net["long"].chain.head
  /\ MainChain(net["short"].chain) = MainChain(net["long"].chain)

Quiet == \A n \in Nodes : net[n].inbox = {} /\ net[n].chain.requests = {}

\* The short node's main chain is a prefix of the long node's.
Lagging ==
  LET short == net["short"].chain
      long == net["long"].chain
  IN /\ short.head < long.head
     /\ \A h \in 0 .. short.head : MainChain(short)[h] = MainChain(long)[h]

\* C10: two nodes that forked at a height f, one of them longer, end up
\* with the same main chain, and from then on no message waits and no
\* request is pending.
C10_Convergence == ~Lagging => <>[](Converged /\ Quiet)

\* C11: when the short node lags, (a) its handling of a newhead above its
\* head h publishes blockreq(h + 1 .. announced height), (b) the long node
\* answers a blockreq with its blocks of those heights, in ascending
\* order, and (c) the short node ends up, for good, with the head and the
\* blocks of the long node and with best_known = the long node's head,
\* the highest height announced to it.
CaughtUp ==
  /\ Converged
  /\ net["short"].bestKnownHeight = net["long"].chain.head

Handled(n, msg) == msg \in net[n].inbox /\ msg \notin net'[n].inbox

C11_CatchUp ==
    /\ Lagging => <>[]CaughtUp
    /\ [][/\ \A msg \in Waiting("short", "newhead") :
              (Handled("short", msg) /\ msg.height > net["short"].chain.head) =>
                BlockRequest(net["short"].chain.head + 1, msg.height) \in net'["long"].inbox
          /\ \A msg \in Waiting("long", "blockreq") :
              (/\ Handled("long", msg)
               /\ msg.from <= msg.to
               /\ \A h \in msg.from .. msg.to : h \in DOMAIN net["long"].chain.blocks) =>
                \E resp \in Waiting("short", "blockresp")' :
                  resp.blocks = [i \in 1 .. msg.to - msg.from + 1 |->
                                  Encode(net["long"].chain.blocks[msg.from + i - 1])]]_vars

(***************************************************************************)
(* What a start on an empty data directory has to leave: head 0, the       *)
(* genesis block of the configured target in by_height[0] and in by_hash.  *)
(***************************************************************************)
GenesisBooted(c) ==
  /\ c.head = 0
  /\ 0 \in DOMAIN c.blocks
  /\ c.blocks[0] = Genesis(c.genesisTarget)
  /\ Hash(Genesis(c.genesisTarget)) \in DOMAIN c.blockHashIndex

\* C14: after a start from an empty store, also when ReindexFromDB found
\* no tip key, height() is 0 and genesis (height 0, zero parent, loss 0,
\* bits = the configured target) is in by_height[0] and in by_hash.
C14_GenesisBoot == last.op = "start" => GenesisBooted(chain)

(***************************************************************************)
(* Block.Encode and DecodeBlock on their own: a block of any bits, nil     *)
(* included, is encoded, and the bytes are decoded.                        *)
(***************************************************************************)
AnyBits == {NilBits} \cup {Big(v) : v \in BitsRange}

CodecBlocks ==
  {MkBlock(hh, [lhat |-> l, bits |-> bits]) :
     hh \in HashesAt(1) \cup HashesAt(2), l \in {GenesisTarget - 1}, bits \in AnyBits}

CodecInit ==
  /\ chain = NewChain(EmptyStore, GenesisTarget, 0)
  /\ ops = 0
  /\ last = [op |-> "start", blk |-> NoBlock, res |-> "Ok"]
  /\ net = NoNet

EncodeBlock ==
  /\ \E b \in CodecBlocks : last' = [op |-> "encode", blk |-> <<b>>, res |-> Encode(b)]
  /\ UNCHANGED <<chain, ops, net>>

Decode ==
  /\ last.op = "encode"
  /\ last' = [op |-> "decode", blk |-> last.blk, res |-> DecodeBlock(last.res)]
  /\ UNCHANGED <<chain, ops, net>>

CodecNext == EncodeBlock \/ Decode

CodecSpec == CodecInit /\ [][CodecNext]_vars

\* C15: decode(encode(b)) = b in every header field, bits included, for
\* every bits value: negative, large or nil.
C15_RoundTrip == last.op = "decode" => last.res = last.blk[1]

(***************************************************************************)
(* Adjust on its own. The chain reader is a chain that grew by imports of  *)
(* mined blocks, each with a timestamp some spacing after its parent's;    *)
(* the tip is any header: the miner passes the head's header, import the   *)
(* header of the block it was handed.                                      *)
(***************************************************************************)
Spacings == {0, 1, 600}
Stamps == {0, 2, 450, 900, 1800, 3600, 7200, 9000}
TipHeights ==
  {RetargetInterval - 1, RetargetInterval, 2 * RetargetInterval - 1, 2 * RetargetInterval}
TipBits ==
  {NilBits} \cup {Big(v) : v \in {DefaultBits, 1, 0, -1, -4, -5, -8, MaxTarget, MaxTarget - 1}}

Tips ==
  {[height |-> h, parent |-> ZeroHash, nonce |-> 0, lhat |-> 0, bits |-> b, ts |-> t] :
     h \in TipHeights, b \in TipBits, t \in Stamps}

AdjustInit ==
  /\ chain = ReindexFromDB(NewChain(EmptyStore, GenesisTarget, 0))
  /\ ops = 0
  /\ last = [op |-> "start", blk |-> NoBlock, res |-> "Ok"]
  /\ net = NoNet

Extend ==
  /\ chain.head < MaxHeight
  /\ \E s \in Spacings :
       LET parent == chain.blocks[chain.head]
           block == [Mined(<<chain.head + 1, Hash(parent), 0>>) EXCEPT !.ts = parent.ts + s]
       IN \E o \in ImportBlock(chain, block) :
            /\ chain' = o.c
            /\ last' = [op |-> "import", blk |-> <<block>>, res |-> o.res]
  /\ UNCHANGED <<ops, net>>

AdjustCall ==
  /\ \E tip \in Tips :
       LET a == Adjust(chain, tip)
       IN /\ chain' = a.c
          /\ last' = [op |-> "adjust", blk |-> <<tip>>, res |-> [bits |-> a.bits, err |-> a.err]]
  /\ UNCHANGED <<ops, net>>

AdjustNext == Extend \/ AdjustCall

AdjustSpec == AdjustInit /\ [][AdjustNext]_vars

(***************************************************************************)
(* The window of a tip: its first header is the one RetargetInterval - 1   *)
(* heights below the tip.                                                  *)
(***************************************************************************)
ExpectedSpan == RetargetInterval * TargetBlockSpacingSec

WindowFirst(tip) == tip.height - RetargetInterval + 1

HasWindow(c, tip) ==
  /\ tip.height >= RetargetInterval
  /\ WindowFirst(tip) \in DOMAIN c.blocks \/ HasBlock(c.store, WindowFirst(tip))

ActualSpan(c, tip) == tip.ts - c.blocks[WindowFirst(tip)].ts

\* Adjust was called with a tip at a retarget height, bits not nil, on a
\* chain that holds the first header of the window.
Retargeted ==
  /\ last.op = "adjust"
  /\ last.blk[1].bits # NilBits
  /\ IsRetarget(last.blk[1].height)
  /\ HasWindow(chain, last.blk[1])

\* C16: for a tip at a retarget height, whatever the timespan of the
\* window, Adjust returns at least tip.bits / MaxAdjustmentFactor (at
\* least 250 for bits 1000).
C16_Clamp ==
  Retargeted => last.res.bits[1] >= last.blk[1].bits[1] \div MaxAdjustmentFactor

\* C17: when the window's timespan is below the expected one, Adjust
\* returns a target strictly below tip.bits, for positive and negative bits.
C17_Direction ==
  (Retargeted /\ ActualSpan(chain, last.blk[1]) < ExpectedSpan) =>
    last.res.bits[1] < last.blk[1].bits[1]

\* C19: when the window's timespan is exactly the expected one, Adjust
\* returns tip.bits, for every bits that is not nil.
C19_Idempotence ==
  (Retargeted /\ ActualSpan(chain, last.blk[1]) = ExpectedSpan) =>
    last.res.bits = last.blk[1].bits

\* C18 as claimed: Adjust returns tip.bits and no error when tip.height is
\* below RetargetInterval, and tip.bits with an error when the first header
\* of the window is missing; the chain is the same after the call.
C18_NoHistory_Claimed ==
  [][last'.op = "adjust" =>
       LET tip == last'.blk[1]
       IN /\ tip.height < RetargetInterval =>
               last'.res = [bits |-> tip.bits, err |-> FALSE] /\ chain' = chain
          /\ (tip.height >= RetargetInterval /\ ~HasWindow(chain, tip)) =>
               last'.res = [bits |-> tip.bits, err |-> TRUE] /\ chain' = chain]_vars

\* C18 as amended: the same, for a tip whose bits is not nil (a nil bits
\* is answered by 1 and an error, whatever the height).
C18_NoHistory ==
  [][last'.op = "adjust" =>
       LET tip == last'.blk[1]
       IN /\ (tip.bits # NilBits /\ tip.height < RetargetInterval) =>
               last'.res = [bits |-> tip.bits, err |-> FALSE] /\ chain' = chain
          /\ (tip.bits # NilBits /\ tip.height >= RetargetInterval /\ ~HasWindow(chain, tip)) =>
               last'.res = [bits |-> tip.bits, err |-> TRUE] /\ chain' = chain
          /\ tip.bits = NilBits =>
               last'.res = [bits |-> Big(1), err |-> TRUE] /\ chain' = chain]_vars

\* Adjust was called with a tip above RetargetInterval whose window starts
\* at a height the chain does not hold, and reported an error.
C18_Witness ==
  /\ last.op = "adjust"
  /\ last.blk[1].bits # NilBits
  /\ last.blk[1].height >= RetargetInterval
  /\ ~HasWindow(chain, last.blk[1])
  /\ last.res.err

(***************************************************************************)
(* dataset.ProceduralQuiz. rand.New(rand.NewSource(seed)) is the generator *)
(* of Go's math/rand (an additive lagged Fibonacci generator of 607 words, *)
(* seeded through x' = 48271 * x mod (2^31 - 1)). Int31Table holds, for    *)
(* every seed that the inputs of the model lead to, the first three values *)
(* of Int31() of the generator so seeded. Intn(n), for n below 2^31, is    *)
(* Int31n(n): the draw modulo n (for a power of two, the draw's low bits,  *)
(* which is the same number), drawn again while the draw exceeds           *)
(* 2^31 - 1 - (2^31 % n); no value of the table does.                      *)
(***************************************************************************)
QuizHeights == {0, 42, 2525986}
QuizNonces == {7, 8, 9995, 9996}

Int31Table ==
  1 :> <<1298498081, 2019727887, 1427131847>> @@
  2 :> <<359266786, 569199786, 110569692>> @@
  3 :> <<1546151008, 1401513977, 2022844896>> @@
  4 :> <<522636829, 219283156, 740241013>> @@
  5 :> <<1726243626, 1115873836, 2103214489>> @@
  6 :> <<769651548, 1813768403, 1328245928>> @@
  7 :> <<1973305886, 497157870, 518375853>> @@
  8 :> <<966697888, 1463575548, 1886306369>> @@
  9 :> <<7831901, 217327960, 1122216742>> @@
  10 :> <<1215673454, 896900848, 1986699067>> @@
  11 :> <<196446360, 1728572951, 1752284213>> @@
  14 :> <<1625914781, 2140891868, 989580035>> @@
  16 :> <<2091677148, 1791011419, 1616829590>> @@
  49 :> <<743049327, 1720384632, 126614094>> @@
  50 :> <<1858210941, 469547664, 961231587>> @@
  56 :> <<395653866, 1359240828, 597225629>> @@
  58 :> <<844089146, 823227557, 690165559>> @@
  1001 :> <<450872163, 1521497921, 1985839989>> @@
  1002 :> <<1641985652, 339430049, 1780062065>> @@
  1003 :> <<698040498, 1169393851, 476438790>> @@
  1004 :> <<2107065647, 1866217210, 233193514>> @@
  1005 :> <<1146667246, 600480588, 1036779837>> @@
  1006 :> <<207149999, 1566521702, 260532818>> @@
  1007 :> <<1403802032, 250711685, 1628470766>> @@
  1008 :> <<371673842, 949896734, 881423619>> @@
  1009 :> <<1579258479, 1848311934, 102241000>> @@
  1010 :> <<619365937, 667917455, 1478225790>> @@
  1011 :> <<1760069435, 1498032810, 127923074>> @@
  1014 :> <<1062968240, 1928465538, 526540873>> @@
  1016 :> <<1227952767, 1309366637, 577381983>> @@
  1056 :> <<1963421069, 877817870, 1577126378>> @@
  1058 :> <<2143976396, 592340423, 54770425>> @@
  2001 :> <<2022455416, 1273588191, 1388659638>> @@
  2002 :> <<1079016245, 1969803825, 68368058>> @@
  2003 :> <<113950275, 653614032, 1971801041>> @@
  2004 :> <<1309839344, 1619930356, 630476782>> @@
  2005 :> <<304223490, 371007753, 386615683>> @@
  2006 :> <<1491042496, 1070495588, 1230813575>> @@
  2007 :> <<551704949, 1901720053, 487876252>> @@
  2008 :> <<1956214659, 720374708, 1860379521>> @@
  2009 :> <<1000342580, 1635814680, 1084022283>> @@
  2010 :> <<56130622, 184916653, 272719135>> @@
  2011 :> <<1247608831, 1014962376, 1636273700>> @@
  2014 :> <<477092736, 1429437852, 948969995>> @@
  2016 :> <<669477952, 1073033739, 1520219045>> @@
  2056 :> <<1379667538, 645705772, 560549549>> @@
  2058 :> <<1570145553, 77398109, 762846534>> @@
  3001 :> <<1510489611, 773772287, 1957563003>> @@
  3002 :> <<483031112, 1740503383, 1681606014>> @@
  3003 :> <<1691801094, 423583347, 372515603>> @@
  3004 :> <<752619283, 1137666754, 130367031>> @@
  3005 :> <<1872043716, 2038512924, 989617995>> @@
  3006 :> <<924340050, 856786563, 214894920>> @@
  3007 :> <<2119470472, 1688515483, 1585283551>> @@
  3011 :> <<399789200, 785414247, 67996522>> @@
  3014 :> <<2040515478, 1176547178, 446727350>> @@
  3016 :> <<72980949, 557856811, 469520711>> @@
  4001 :> <<662080091, 561168337, 1006914087>> @@
  4011 :> <<1972925395, 269332185, 1329760564>> @@
  4014 :> <<1208865112, 677626474, 1124085483>> @@
  9995 :> <<353412058, 1844016530, 1970351064>> @@
  9996 :> <<1544333740, 527517931, 686244956>> @@
  10037 :> <<1246325929, 780860355, 629310578>> @@
  10038 :> <<297908219, 1807441756, 433164022>> @@
  19990 :> <<802452846, 391791889, 1363831329>> @@
  19992 :> <<1041788329, 1920661247, 1927836892>> @@
  20032 :> <<1770374077, 1514501021, 572984770>> @@
  20034 :> <<1959206007, 1231489280, 1135647894>> @@
  20990 :> <<273670128, 2057393764, 418210405>> @@
  20992 :> <<461558444, 1707683235, 515025310>> @@
  21032 :> <<1191482814, 1284128963, 1632646405>> @@
  21034 :> <<1362632313, 730702830, 80449855>> @@
  21990 :> <<1858431170, 1827928585, 991577650>> @@
  21992 :> <<2029973885, 1211317173, 1613266147>> @@
  22032 :> <<610814610, 766958677, 469435340>> @@
  22034 :> <<799598158, 483926031, 1085965444>> @@
  22990 :> <<993933252, 1313978403, 385866964>> @@
  22992 :> <<1464415887, 964438611, 445323916>> @@
  23032 :> <<1906075025, 537173619, 1606759028>> @@
  23034 :> <<207819745, 2076380389, 55776070>> @@
  24034 :> <<1525608753, 1729043206, 1248732145>> @@
  2525993 :> <<827789043, 844248016, 1695275719>> @@
  2525994 :> <<1951989233, 1809456278, 918919379>> @@
  2526000 :> <<480251631, 373932214, 18396151>> @@
  2526002 :> <<929178558, 23917789, 581250864>> @@
  2527000 :> <<2047972275, 144591940, 1484584896>> @@
  2527002 :> <<82806402, 1670903045, 1552622705>> @@
  2528000 :> <<1474730966, 1775502398, 45452806>> @@
  2528002 :> <<1655262097, 1423017879, 666450487>> @@
  2529002 :> <<1074647634, 925570445, 1247655266>> @@
  2530002 :> <<294142951, 723319215, 572846116>> @@
  2535981 :> <<1339049520, 38523163, 545697738>> @@
  2535982 :> <<382953069, 870315890, 1913708270>> @@
  2545976 :> <<1855419695, 721816795, 2087296829>> @@
  2545978 :> <<2044228075, 170339225, 537589486>> @@
  2546976 :> <<1276196418, 223427070, 1594842366>> @@
  2546978 :> <<1446986942, 2070586150, 1608070296>> @@
  2547976 :> <<695438083, 2123909515, 2017258563>> @@
  2547978 :> <<883993539, 1570078285, 440442461>>

\* The k-th Intn(n) of rand.New(rand.NewSource(seed)).
Intn(seed, k, n) == Int31Table[seed][k] % n

Fruits == <<"apple", "banana", "cherry", "date", "elderberry">>

\* One question, from its own generator qRng; fmt.Sprintf renders the
\* numbers in decimal, so a question is its wording and its numbers.
Question(questionSeed) ==
  LET questionType == Intn(questionSeed, 1, 4)
  IN CASE questionType = 0 ->
            <<"What is %d + %d?", 1 + Intn(questionSeed, 2, 1000), 1 + Intn(questionSeed, 3, 1000)>>
       [] questionType = 1 ->
            <<"What is %d × %d?", 1 + Intn(questionSeed, 2, 50), 1 + Intn(questionSeed, 3, 50)>>
       [] questionType = 2 ->
            LET start == 1 + Intn(questionSeed, 2, 10)
                step == 1 + Intn(questionSeed, 3, 5)
            IN <<"Complete the pattern: %d, %d, %d, ?", start, start + step, start + 2 * step>>
       [] questionType = 3 ->
            <<"What fruit comes after %s in alphabetical order?",
              Fruits[1 + Intn(questionSeed, 2, Len(Fruits))]>>

\* The sums stay far below 2^63 for the heights and nonces of the model, so
\* int64's wrap-around does not occur.
ProceduralQuiz(blockHeight, nonce) ==
  LET seed == blockHeight + nonce
      numQuestions == 3 + Intn(seed, 1, 3)
  IN [i \in 1 .. numQuestions |-> Question(seed + (i - 1) * 1000 + (nonce % 10000))]

(***************************************************************************)
(* ProceduralQuiz on its own: it is called for any height and nonce, and   *)
(* the call before is remembered next to the latest one.                   *)
(***************************************************************************)
QuizInit ==
  /\ chain = NewChain(EmptyStore, GenesisTarget, 0)
  /\ ops = 0
  /\ last = [op |-> "start", blk |-> NoBlock, res |-> "Ok"]
  /\ net = NoNet

QuizCall ==
  /\ \E blockHeight \in QuizHeights, nonce \in QuizNonces :
       last' = [op |-> "quiz", blk |-> <<blockHeight, nonce>>,
                res |-> ProceduralQuiz(blockHeight, nonce),
                prev |-> IF last.op = "quiz"
                         THEN <<[blk |-> last.blk, res |-> last.res]>> ELSE <<>>]
  /\ UNCHANGED <<chain, ops, net>>

QuizNext == QuizCall

QuizSpec == QuizInit /\ [][QuizNext]_vars

\* C20: two calls of procedural_quiz with the same height and nonce return
\* the same ordered sequence, of 3 to 5 questions; two calls at the same
\* height with nonces that differ by one return sequences that differ in at
\* least one element.
C20_QuizDeterminism ==
  (last.op = "quiz" /\ last.prev # <<>>) =>
    LET prev == last.prev[1]
    IN /\ Len(last.res) \in 3 .. 5
       /\ prev.blk = last.blk => prev.res = last.res
       /\ (prev.blk[1] = last.blk[1] /\ prev.blk[2] + 1 = last.blk[2]) =>
            prev.res # last.res

(***************************************************************************)
(* The replay path shared by miner.WorkLoop and validator.VerifyBlock, in  *)
(* the default build (no llama tag), where inference.LLM is the stub:      *)
(* NewLLM never fails and Infer answers "stub_response_" followed by the   *)
(* first 8 bytes of SHA-256 over "<prompt>:<seed>". A prompt is modelled   *)
(* as the sequence of its lines (a line being its wording and its          *)
(* numbers), SHA-256 as collision free. The loss is                        *)
(* the int64 read from the first 8 bytes of SHA-256 over the output;       *)
(* LossTable holds it for the prompts the model reaches, computed from the *)
(* strings the code builds, and cut to the IntBits highest bits of its 64, *)
(* which keeps the sign and the order: an int64 of the source is an        *)
(* integer of IntBits bits here, as -2^63 is MaxTarget.                    *)
(***************************************************************************)
IntBits == 17
MaxTries == 5

MinerPrompt(quizzes) ==
  << <<"Please answer these questions:">> >> \o quizzes \o << <<"Answers:">> >>
ValidatorPrompt(quizzes) == quizzes

Infer(prompt, seed) ==
  IF prompt = <<>> THEN [output |-> <<>>, err |-> TRUE]
  ELSE [output |-> <<"stub_response", prompt, seed>>, err |-> FALSE]

LossTable ==
  Infer(MinerPrompt(ProceduralQuiz(1, 0)), 1).output :> -28257 @@
  Infer(ValidatorPrompt(ProceduralQuiz(1, 0)), 1).output :> 36260 @@
  Infer(MinerPrompt(ProceduralQuiz(1, 1)), 1).output :> 11389 @@
  Infer(ValidatorPrompt(ProceduralQuiz(1, 1)), 1).output :> -60226 @@
  Infer(MinerPrompt(ProceduralQuiz(1, 2)), 1).output :> 52189 @@
  Infer(ValidatorPrompt(ProceduralQuiz(1, 2)), 1).output :> 58772 @@
  Infer(MinerPrompt(ProceduralQuiz(1, 3)), 1).output :> 47247 @@
  Infer(ValidatorPrompt(ProceduralQuiz(1, 3)), 1).output :> 6582 @@
  Infer(MinerPrompt(ProceduralQuiz(1, 4)), 1).output :> -62352 @@
  Infer(ValidatorPrompt(ProceduralQuiz(1, 4)), 1).output :> -29438 @@
  Infer(MinerPrompt(ProceduralQuiz(2, 0)), 2).output :> 31540 @@
  Infer(ValidatorPrompt(ProceduralQuiz(2, 0)), 2).output :> -8577 @@
  Infer(MinerPrompt(ProceduralQuiz(2, 1)), 2).output :> 30691 @@
  Infer(ValidatorPrompt(ProceduralQuiz(2, 1)), 2).output :> 48435 @@
  Infer(MinerPrompt(ProceduralQuiz(2, 2)), 2).output :> 40440 @@
  Infer(ValidatorPrompt(ProceduralQuiz(2, 2)), 2).output :> 17747 @@
  Infer(MinerPrompt(ProceduralQuiz(2, 3)), 2).output :> 45710 @@
  Infer(ValidatorPrompt(ProceduralQuiz(2, 3)), 2).output :> 64294 @@
  Infer(MinerPrompt(ProceduralQuiz(2, 4)), 2).output :> -58411 @@
  Infer(ValidatorPrompt(ProceduralQuiz(2, 4)), 2).output :> -46885 @@
  Infer(MinerPrompt(ProceduralQuiz(3, 0)), 3).output :> -53872 @@
  Infer(ValidatorPrompt(ProceduralQuiz(3, 0)), 3).output :> -36890 @@
  Infer(MinerPrompt(ProceduralQuiz(3, 1)), 3).output :> 19107 @@
  Infer(ValidatorPrompt(ProceduralQuiz(3, 1)), 3).output :> 56405 @@
  Infer(MinerPrompt(ProceduralQuiz(3, 2)), 3).output :> -30067 @@
  Infer(ValidatorPrompt(ProceduralQuiz(3, 2)), 3).output :> -9517 @@
  Infer(MinerPrompt(ProceduralQuiz(3, 3)), 3).output :> 18848 @@
  Infer(ValidatorPrompt(ProceduralQuiz(3, 3)), 3).output :> 6083 @@
  Infer(MinerPrompt(ProceduralQuiz(3, 4)), 3).output :> -24514 @@
  Infer(ValidatorPrompt(ProceduralQuiz(3, 4)), 3).output :> -36850

LossInt(output) == LossTable[output]

\* big.Int.Int64: the low 64 bits of the magnitude, read as an int64, and
\* negated for a negative number; both conversions wrap.
WrapInt64(v) == ((v + 2^(IntBits - 1)) % 2^IntBits) - 2^(IntBits - 1)
Int64(x) ==
  LET low == WrapInt64((IF x < 0 THEN -x ELSE x) % 2^IntBits)
  IN IF x < 0 THEN WrapInt64(-low) ELSE low

(***************************************************************************)
(* Transaction.Verify. A signature is modelled by what crypto.SigToPub     *)
(* makes of it over the transaction's hash: the address of the key it      *)
(* recovers, or "malformed" for bytes that recover none.                   *)
(***************************************************************************)
CoinbaseTx == [From |-> <<>>, Signature |-> <<>>]

TxVerify(tx) ==
  IF Len(tx.From) = 0 THEN "Ok"
  ELSE IF Len(tx.Signature) = 0 THEN "NoSignature"
  ELSE IF tx.Signature[1] = "malformed" THEN "InvalidSignature"
  ELSE IF tx.Signature[1] # tx.From[1] THEN "SenderMismatch"
  ELSE "Ok"

(***************************************************************************)
(* validator.VerifyBlock on a core.Block (Header and Transactions). A nil  *)
(* Header.Bits makes Bits.Int64() dereference nil: the call panics.        *)
(***************************************************************************)
VerifyBlock(b) ==
  LET quizzes == ProceduralQuiz(b.Header.height, b.Header.nonce)
      prompt == ValidatorPrompt(quizzes)
      llmSeed == b.Header.height
      r == Infer(prompt, llmSeed)
      lossInt == LossInt(r.output)
  IN IF \E i \in DOMAIN b.Transactions : TxVerify(b.Transactions[i]) # "Ok"
     THEN "TxVerifyFailed"
     ELSE IF prompt = <<>> THEN "EmptyPrompt"
     ELSE IF r.err THEN "InferFailed"
     ELSE IF lossInt # b.Header.lhat THEN "InvalidLoss"
     ELSE IF b.Header.bits = NilBits THEN "Panic"
     ELSE IF lossInt > Int64(b.Header.bits[1]) THEN "TargetNotMet"
     ELSE "Ok"

(***************************************************************************)
(* One turn of WorkLoop's outer loop up to the broadcast: the parent is    *)
(* the head's header, the nonce search runs from 0 until a loss meets the  *)
(* target, and the block is built by NewBlock on the parent's bits. The    *)
(* block is <<>> while there is no head, or while no nonce below MaxTries  *)
(* meets the target. now is the clock's reading.                           *)
(***************************************************************************)
MinerLoss(height, nonce) ==
  LossInt(Infer(MinerPrompt(ProceduralQuiz(height, nonce)), height).output)

\* The nonce search: the first nonce from n on whose loss meets the target,
\* <<>> when none below MaxTries does.
RECURSIVE nonceSearch(_, _, _)
nonceSearch(height, currentTarget, n) ==
  IF n >= MaxTries THEN <<>>
  ELSE IF MinerLoss(height, n) <= currentTarget THEN <<n>>
  ELSE nonceSearch(height, currentTarget, n + 1)

\* core.NewBlock on the winning nonce, <<>> while the search goes on.
mintBlock(parent, found, now) ==
  IF found = <<>> THEN <<>>
  ELSE <<[height |-> parent.height + 1, parent |-> Hash(parent), nonce |-> found[1],
          lhat |-> MinerLoss(parent.height + 1, found[1]), bits |-> parent.bits,
          ts |-> now]>>

\* The target before any retarget: the parent's bits as an int64, and the
\* CLI target when that is not above 0.
CurrentTarget(parent, target) ==
  LET currentTarget == Int64(parent.bits[1])
  IN IF currentTarget <= 0 THEN target ELSE currentTarget

WorkLoop(c, target, now) ==
  LET r == HeaderByHeight(c, c.head)
  IN IF r.hdr = <<>> THEN [c |-> r.c, block |-> <<>>]
     ELSE
       LET parent == r.hdr[1]
           height == parent.height + 1
           currentTarget == CurrentTarget(parent, target)
       IN IF height % RetargetInterval = 0 /\ parent.height > 0
          THEN LET a == Adjust(r.c, parent)
                   retargeted == IF a.err THEN currentTarget ELSE Int64(a.bits[1])
               IN [c |-> a.c,
                   block |-> mintBlock(parent, nonceSearch(height, retargeted, 0), now)]
          ELSE [c |-> r.c,
                block |-> mintBlock(parent, nonceSearch(height, currentTarget, 0), now)]

(***************************************************************************)
(* The miner and the validator on one node. Mint is WorkLoop's turn up to  *)
(* LocalBroadcaster.BroadcastBlock, which writes the encoded block into    *)
(* the blocks directory; the miner then waits for the head to reach the    *)
(* block's height. ProcessBlocks takes a file of the directory, decodes it *)
(* and imports the block. Replay is VerifyBlock on a block of the chain    *)
(* (its header as stored, with the coinbase transaction the miner put in). *)
(***************************************************************************)
ReplayedLoss(height, nonce) ==
  LossInt(Infer(ValidatorPrompt(ProceduralQuiz(height, nonce)), height).output)

TxLists ==
  {<<>>, <<CoinbaseTx>>,
   <<CoinbaseTx, [From |-> <<"alice">>, Signature |-> <<"alice">>]>>,
   <<CoinbaseTx, [From |-> <<"alice">>, Signature |-> <<"bob">>]>>,
   <<[From |-> <<"alice">>, Signature |-> <<>>]>>,
   <<[From |-> <<"alice">>, Signature |-> <<"malformed">>]>>}

VerifyBlocksAt(h, n) ==
  {[Header |-> [height |-> h, parent |-> ZeroHash, nonce |-> n, lhat |-> l, bits |-> bits, ts |-> 0],
    Transactions |-> txs] :
     txs \in TxLists,
     l \in {ReplayedLoss(h, n), ReplayedLoss(h, n) + 1},
     bits \in {NilBits, Big(ReplayedLoss(h, n)), Big(ReplayedLoss(h, n) - 1), Big(2^IntBits)}}

VerifyBlocks == UNION {VerifyBlocksAt(h, n) : h \in {1, 2}, n \in {0, 1}}

ChainBlocks(c) ==
  {[Header |-> c.blocks[h], Transactions |-> <<CoinbaseTx>>] : h \in DOMAIN c.blocks \ {0}}

ReplayInit ==
  /\ chain = ReindexFromDB(NewChain(EmptyStore, GenesisTarget, 0))
  /\ ops = 0
  /\ last = [op |-> "start", blk |-> NoBlock, res |-> "Ok"]
  /\ net = [blocksDir |-> <<>>, waitsFor |-> 0]

Mint ==
  /\ chain.head < MaxHeight
  /\ chain.head >= net.waitsFor
  /\ \E s \in Spacings :
       \E w \in {WorkLoop(chain, chain.genesisTarget, chain.blocks[chain.head].ts + s)} :
         /\ w.block # <<>>
         /\ chain' = w.c
         /\ net' = [blocksDir |-> Append(net.blocksDir, Encode(w.block[1])),
                    waitsFor |-> w.block[1].height]
         /\ last' = [op |-> "mint", blk |-> w.block, res |-> "Ok"]
  /\ UNCHANGED ops

ProcessBlocks ==
  /\ net.blocksDir # <<>>
  /\ LET block == DecodeBlock(Head(net.blocksDir))
     IN \E o \in ImportBlock(chain, block) :
          /\ chain' = o.c
          /\ last' = [op |-> "process", blk |-> <<block>>, res |-> o.res]
  /\ net' = [net EXCEPT !.blocksDir = Tail(@)]
  /\ UNCHANGED ops

Replay ==
  /\ \E b \in ChainBlocks(chain) :
       last' = [op |-> "verify", blk |-> <<b>>, res |-> VerifyBlock(b)]
  /\ UNCHANGED <<chain, ops, net>>

ReplayNext == Mint \/ ProcessBlocks \/ Replay

ReplaySpec == ReplayInit /\ [][ReplayNext]_vars

(***************************************************************************)
(* VerifyBlock on its own, on blocks from elsewhere.                       *)
(***************************************************************************)
Verify ==
  /\ \E b \in VerifyBlocks :
       last' = [op |-> "verify", blk |-> <<b>>, res |-> VerifyBlock(b)]
  /\ UNCHANGED <<chain, ops, net>>

VerifyNext == Verify

VerifySpec == ReplayInit /\ [][VerifyNext]_vars

\* C12: verify(block) returns ok exactly when every non-coinbase
\* transaction's signature verifies, the loss replayed from the block's
\* height and nonce equals the header's loss_claim, and that loss <= the
\* header's bits; with the signatures in order, a loss_claim that differs
\* from the replayed loss fails InvalidLoss, and a matching loss above bits
\* fails TargetNotMet.
C12_Verdict ==
  last.op = "verify" =>
    LET b == last.blk[1]
        hd == b.Header
        loss == ReplayedLoss(hd.height, hd.nonce)
        signed == \A i \in DOMAIN b.Transactions :
                    Len(b.Transactions[i].From) = 0 \/ TxVerify(b.Transactions[i]) = "Ok"
        met == hd.bits # NilBits /\ loss <= hd.bits[1]
    IN /\ last.res = "Ok" <=> (signed /\ loss = hd.lhat /\ met)
       /\ (signed /\ loss # hd.lhat) => last.res = "InvalidLoss"
       /\ (signed /\ loss = hd.lhat /\ hd.bits # NilBits /\ loss > hd.bits[1]) =>
            last.res = "TargetNotMet"

\* C13: for a block that the miner minted and the chain imported, the
\* validator builds the prompt the miner built (and the same seed), and
\* VerifyBlock on the block as stored, with its stored bits, returns ok.
C13_SameReplay ==
  (last.op = "verify" /\ last.blk[1] \in ChainBlocks(chain)) =>
    LET hd == last.blk[1].Header
        quizzes == ProceduralQuiz(hd.height, hd.nonce)
    IN /\ ValidatorPrompt(quizzes) = MinerPrompt(quizzes)
       /\ last.res = "Ok"

(***************************************************************************)
(* Adjust went through its arithmetic: the tip's bits is not nil, its      *)
(* height is at least RetargetInterval and the chain holds the first       *)
(* header of its window. ClampedSpan is the window's timespan within       *)
(* [ExpectedSpan / MaxAdjustmentFactor, ExpectedSpan * MaxAdjustmentFactor].*)
(***************************************************************************)
Scaled ==
  /\ last.op = "adjust"
  /\ last.blk[1].bits # NilBits
  /\ HasWindow(chain, last.blk[1])

ClampedSpan(c, tip) ==
  LET span == ActualSpan(c, tip)
      minSpan == ExpectedSpan \div MaxAdjustmentFactor
      maxSpan == ExpectedSpan * MaxAdjustmentFactor
  IN IF span < minSpan THEN minSpan ELSE IF span > maxSpan THEN maxSpan ELSE span

\* The quotient rounded toward zero, as Go's / on integers rounds.
Quo(a, b) == IF a >= 0 THEN a \div b ELSE -((-a) \div b)

Saturate(v) == IF v > MinTarget THEN MinTarget ELSE IF v < MaxTarget THEN MaxTarget ELSE v

C29_RoundTowardZero ==
  Scaled =>
    last.res.bits[1] =
      Saturate(Quo(last.blk[1].bits[1] * ClampedSpan(chain, last.blk[1]), ExpectedSpan))

(***************************************************************************)
(* The miner's choice of target on its own. The parent is a header as      *)
(* HeaderByHeight returns it: its bits is neither nil nor 0. The CLI       *)
(* target is the flag -target.                                             *)
(***************************************************************************)
ParentBits == (BitsRange \cup {MaxTarget, MaxTarget + 1}) \ {0}
CliTargets == {-1, GenesisTarget, MaxTarget}

ParentHeaders ==
  {[height |-> h, parent |-> ZeroHash, nonce |-> 0, lhat |-> 0, bits |-> Big(v), ts |-> 0] :
     h \in 0 .. MaxHeight, v \in ParentBits}

SelectTarget ==
  /\ \E parent \in ParentHeaders, target \in CliTargets :
       last' = [op |-> "target", blk |-> <<parent>>, cli |-> target,
                res |-> CurrentTarget(parent, target)]
  /\ UNCHANGED <<chain, ops, net>>

TargetNext == SelectTarget

TargetSpec == ReplayInit /\ [][TargetNext]_vars

\* C30: the miner's current target, before any retarget, is the parent's
\* bits when they are below 0, and the CLI target only when they are 0 or
\* above.
C30_TargetSelection ==
  last.op = "target" =>
    LET bits == last.blk[1].bits[1]
    IN /\ bits < 0 => last.res = bits
       /\ last.res = last.cli /\ last.cli # bits => bits >= 0

\* The import of this step accepted its block onto the chain: the height
\* was free before, the call returned nil and the block is at its height.
Accepted ==
  /\ ImportStep
  /\ last'.res = "Ok"
  /\ Imported.height \notin DOMAIN chain.blocks
  /\ Imported.height \in DOMAIN chain'.blocks
  /\ Hash(chain'.blocks[Imported.height]) = Hash(Imported)

SameButBits(b1, b2) == [b1 EXCEPT !.bits = b2.bits] = b2

\* C27: the bits stored for an accepted block are the parent's bits at a
\* height that is no retarget height, and at every height they are the
\* bits that would have been stored, from the same chain, for a block that
\* differs from it only in its bits field.
C27_SenderIndependent ==
  [][Accepted =>
       LET h == Imported.height
           stored == chain'.blocks[h].bits
       IN /\ ~IsRetarget(h) => stored = chain.blocks[h - 1].bits
          /\ \A b2 \in Universe : SameButBits(Imported, b2) =>
               \A o \in ImportBlock(chain, b2) :
                 (o.res = "Ok" /\ h \in DOMAIN o.c.blocks /\ Hash(o.c.blocks[h]) = Hash(b2)) =>
                   o.c.blocks[h].bits = stored]_vars

(***************************************************************************)
(* Imports at occupied heights. Next to the blocks of Universe, whose      *)
(* parent lies below them, a peer can hand in a block that names the head  *)
(* as its parent and an occupied height as its own.                        *)
(***************************************************************************)
ImportOnHead ==
  /\ ops < MaxOps
  /\ ~chain.wedged
  /\ chain.head \in DOMAIN chain.blocks
  /\ \E h \in DOMAIN chain.blocks \ {0} : \E n \in 0 .. MaxNonce : \E pl \in Payloads :
       LET block == MkBlock(<<h, Hash(chain.blocks[chain.head]), n>>, pl)
       IN \E o \in ImportBlock(chain, block) :
            /\ chain' = o.c
            /\ last' = [op |-> "import", blk |-> <<block>>, res |-> o.res]
  /\ ops' = ops + 1
  /\ UNCHANGED net

OccupiedNext == Import \/ ImportOnHead

OccupiedSpec == Init /\ [][OccupiedNext]_vars

\* The import of this step found its block's height occupied in by_height.
Occupied == ImportStep /\ Imported.height \in DOMAIN chain.blocks

\* The block's hash differs from the hash of the block at its height, and
\* its parent is not the head.
Foreign(c, block) ==
  /\ Hash(c.blocks[block.height]) # Hash(block)
  /\ block.parent # Hash(c.blocks[c.head])

\* C26: an import at an occupied height appends the block to the entry of
\* side_branches under its parent hash, runs the reorg check and returns
\* ok when the block's hash differs from the one at that height and its
\* parent is not the head; in every other case it returns Duplicate and
\* by_height, by_hash, head, the orphan pool and side_branches are as
\* before.
C26_OccupiedHeight ==
  [][Occupied =>
       IF Foreign(chain, Imported)
       THEN /\ last'.res = "Ok"
            /\ LET branch == IF Imported.parent \in DOMAIN chain.sideBranches
                             THEN Append(chain.sideBranches[Imported.parent], Imported)
                             ELSE <<Imported>>
               IN chain' \in checkReorg([chain EXCEPT !.sideBranches =
                                           (Imported.parent :> branch) @@ @])
       ELSE /\ last'.res = "Duplicate"
            /\ chain'.blocks = chain.blocks
            /\ chain'.blockHashIndex = chain.blockHashIndex
            /\ chain'.head = chain.head
            /\ chain'.OrphanPool = chain.OrphanPool
            /\ chain'.sideBranches = chain.sideBranches]_vars

\* An import at an occupied height took the side-branch route: the block
\* is the last one filed under its parent hash.
C26_Witness ==
  /\ last.op = "import"
  /\ last.res = "Ok"
  /\ last.blk[1].height \in DOMAIN chain.blocks
  /\ Hash(chain.blocks[last.blk[1].height]) # Hash(last.blk[1])
  /\ last.blk[1].parent \in DOMAIN chain.sideBranches
  /\ LET branch == chain.sideBranches[last.blk[1].parent]
     IN branch[Len(branch)] = last.blk[1]

(***************************************************************************)
(* The block-request responder on its own. The request's from and to are   *)
(* unsigned integers of UintBits bits (64 in the source), the cap is       *)
(* ServeCap heights (MaxServe in the source), and the chain holds more     *)
(* blocks than the cap.                                                    *)
(***************************************************************************)
UintBits == 3
ServeCap == 2

Uint(v) == v % 2^UintBits
MaxUint == 2^UintBits - 1

\* req.To after "if req.To-req.From > 512 { req.To = req.From + 512 }".
CappedTo(from, to, cap) ==
  IF Uint(to - from) > cap THEN Uint(from + cap) ELSE to

\* The loop "for h := req.From; h <= req.To; h++" ends unless req.To is the
\* largest value of the type, which no h exceeds.
ServeBlocks(c, from, to, cap) ==
  LET capped == CappedTo(from, to, cap)
  IN IF capped = MaxUint
     THEN [stuck |-> TRUE, blocks |-> <<>>]
     ELSE [stuck |-> FALSE, blocks |-> ServeFrom(c, from, capped)]

ServeInit ==
  /\ \E k \in 0 .. MaxHeight :
       chain = CHOOSE c \in ImportSeq({NewChain(EmptyStore, GenesisTarget, 0)},
                                      MinedBranch(GenesisHash, 1, k, 0)) : TRUE
  /\ ops = 0
  /\ last = [op |-> "start", blk |-> NoBlock, res |-> "Ok"]
  /\ net = NoNet

ServeRequest ==
  /\ \E from \in 0 .. MaxUint : \E to \in 0 .. MaxUint :
       last' = [op |-> "blockreq", blk |-> <<from, to>>,
                res |-> ServeBlocks(chain, from, to, ServeCap)]
  /\ UNCHANGED <<chain, ops, net>>

ServeNext == ServeRequest

ServeSpec == ServeInit /\ [][ServeNext]_vars

\* C23: whatever from and to a block request carries, to below from and
\* to - from above the cap included, the response holds at most as many
\* blocks as the cap allows.
C23_ResponseCap ==
  (last.op = "blockreq" /\ ~last.res.stuck) => Len(last.res.blocks) <= ServeCap

(***************************************************************************)
(* The drop directory. A file is named by the height of its block and the  *)
(* writer's clock, and holds <<>> between the writer's open and its write, *)
(* the encoded block afterwards. BroadcastBlock's os.WriteFile opens       *)
(* (creates and truncates) the file and then writes it, and the poller of  *)
(* ProcessBlocks runs in a goroutine of its own, so that a tick can fall   *)
(* between the two. processed is the poller's map; imports counts, per     *)
(* file, the calls of ImportBlock on its content, written is the set of    *)
(* files whose writer is done, and imported the set of files whose import  *)
(* returned no error.                                                      *)
(***************************************************************************)
MaxFiles == 3

DropBlocks == {b \in Universe : b.nonce = 0 /\ b.parent[3] = 0 /\ b.bits = Big(GenesisTarget)
                                  /\ b.height < MaxHeight}

FileName(block, nanos) == <<block.height, nanos>>

\* os.ReadDir returns the entries sorted by filename.
NameBefore(f, g) == f[1] < g[1] \/ (f[1] = g[1] /\ f[2] < g[2])
FirstName(names) == CHOOSE f \in names : \A g \in names \ {f} : NameBefore(f, g)

DropInit ==
  /\ chain = NewChain(EmptyStore, GenesisTarget, 0)
  /\ ops = 0
  /\ last = [op |-> "start", blk |-> NoBlock, res |-> "Ok"]
  /\ net = [blocksDir |-> <<>>, writing |-> <<>>, processed |-> {}, imports |-> <<>>,
            written |-> {}, imported |-> {}, nanos |-> 0]

\* BroadcastBlock up to os.WriteFile's open: the file exists and is empty.
BroadcastBlockOpen ==
  /\ net.nanos < MaxFiles
  /\ \E block \in DropBlocks :
       LET filename == FileName(block, net.nanos + 1)
       IN net' = [net EXCEPT !.blocksDir = MapPut(@, filename, <<>>),
                             !.writing = MapPut(@, filename, block),
                             !.nanos = @ + 1]
  /\ UNCHANGED <<chain, ops, last>>

\* The rest of os.WriteFile: the data goes to the file that was opened,
\* which the directory holds unless it was removed in between.
BroadcastBlockWrite ==
  /\ \E filename \in DOMAIN net.writing :
       net' = [net EXCEPT !.blocksDir = IF filename \in DOMAIN @
                                        THEN MapPut(@, filename, <<Encode(net.writing[filename])>>)
                                        ELSE @,
                          !.writing = MapRemove(@, filename),
                          !.written = @ \cup {filename}]
  /\ UNCHANGED <<chain, ops, last>>

ImportCount(nt, filename) == IF filename \in DOMAIN nt.imports THEN nt.imports[filename] ELSE 0

\* One file of a tick of ProcessBlocks, on the pair st of chain and directory.
processFile(st, filename) ==
  IF filename \in st.nt.processed THEN {st}
  ELSE
    LET nt1 == [st.nt EXCEPT !.processed = @ \cup {filename}]
        data == st.nt.blocksDir[filename]
    IN IF data = <<>>
       THEN {[c |-> st.c, nt |-> [nt1 EXCEPT !.blocksDir = MapRemove(@, filename)]]}
       ELSE {[c |-> o.c,
              nt |-> [nt1 EXCEPT !.imports = MapPut(@, filename, ImportCount(nt1, filename) + 1),
                                 !.blocksDir = IF o.res = "Ok" THEN MapRemove(@, filename) ELSE @,
                                 !.imported = IF o.res = "Ok" THEN @ \cup {filename} ELSE @]] :
               o \in ImportBlock(st.c, DecodeBlock(data[1]))}

RECURSIVE processFiles(_, _)
processFiles(sts, files) ==
  IF files = {} THEN sts
  ELSE LET filename == FirstName(files)
       IN processFiles(UNION {processFile(st, filename) : st \in sts}, files \ {filename})

\* A tick of ProcessBlocks: every file of the directory, in ReadDir's order.
ProcessTick ==
  /\ DOMAIN net.blocksDir \ net.processed # {}
  /\ \E st \in processFiles({[c |-> chain, nt |-> net]}, DOMAIN net.blocksDir) :
       /\ chain' = Squash(st.c)
       /\ net' = st.nt
  /\ last' = [op |-> "process", blk |-> NoBlock, res |-> "Ok"]
  /\ UNCHANGED ops

DropNext == BroadcastBlockOpen \/ BroadcastBlockWrite \/ ProcessTick

DropSpec == DropInit /\ [][DropNext]_vars

\* C25: no file of the drop directory is passed to import a second time, a
\* file whose import succeeded is gone from the directory, and every file
\* that was written and that the poller has seen was passed to import once.
C25_OncePerFile ==
  /\ \A filename \in DOMAIN net.imports : net.imports[filename] <= 1
  /\ \A filename \in net.imported : filename \notin DOMAIN net.blocksDir
  /\ \A filename \in net.written \cap net.processed : ImportCount(net, filename) = 1

\* The message is one that node n published and that no other node published.
SelfOrigin(n, msg) ==
  /\ msg \in net[n].sent
  /\ \A m \in Nodes \ {n} : msg \notin net[m].sent

\* C24: a node that takes a message of its own from a subscription does not
\* act on it: its chain stays as it is (no import) and no message is
\* published (no block request, no block response).
C24_SelfIgnored ==
  [][\A n \in Nodes : \A msg \in net[n].inbox :
       (Handled(n, msg) /\ SelfOrigin(n, msg)) =>
         /\ net'[n].chain = net[n].chain
         /\ \A m \in Nodes : net'[m].inbox \subseteq net[m].inbox]_vars

(***************************************************************************)
(* Head subscribers. A subscriber reads the head when it has subscribed    *)
(* and again whenever it has taken a notification from its channel;        *)
(* net.observed holds the head each subscriber read last.                  *)
(***************************************************************************)
MaxSubscribers == 1

NotifyInit ==
  /\ \E pd \in PruneDepths : \E st \in {EmptyStore, FailingStore} :
       chain = ReindexFromDB(NewChain(st, GenesisTarget, pd))
  /\ ops = 0
  /\ last = [op |-> "start", blk |-> NoBlock, res |-> "Ok"]
  /\ net = [observed |-> <<>>]

Subscribe ==
  /\ Len(chain.subscribers) < MaxSubscribers
  /\ chain' = SubscribeToHeadChanges(chain)
  /\ net' = [net EXCEPT !.observed = Append(@, chain.head)]
  /\ UNCHANGED <<ops, last>>

Wake ==
  /\ \E i \in DOMAIN chain.subscribers :
       /\ chain.subscribers[i] > 0
       /\ chain' = [chain EXCEPT !.subscribers[i] = @ - 1]
       /\ net' = [net EXCEPT !.observed[i] = chain.head]
  /\ UNCHANGED <<ops, last>>

NotifyNext == Subscribe \/ Import \/ Wake

NotifySpec == NotifyInit /\ [][NotifyNext]_vars

\* C21: for every head subscriber, a notification waits in its channel
\* whenever the head is not the one the subscriber read last, whether an
\* import or a reorg moved the head; a subscriber that reads the head on
\* each wake thus ends with the final head.
C21_NoLostNotification ==
  \A i \in DOMAIN chain.subscribers :
    chain.subscribers[i] = 0 => net.observed[i] = chain.head

(***************************************************************************)
(* The miner's loop, step by step, next to a chain that peers' blocks      *)
(* reach. net holds the miner: pc is its position ("template" at the top   *)
(* of the outer loop, "infer" before llm.Infer, "poll" at the select on    *)
(* headChangeCh after a failed try, "wait" in the loop that waits for the  *)
(* head after a block was found), parent the header its template was built *)
(* from, nonce and currentTarget the search's variables, blocksDir the     *)
(* files BroadcastBlock wrote and waitsFor the height of the block found.  *)
(* The miner's channel is the first of chain.subscribers.                  *)
(***************************************************************************)
PeerBlocks ==
  {b \in Universe : /\ b.bits = Big(GenesisTarget)
                    /\ b.parent \in {GenesisHash, <<1, GenesisHash, 0>>}}

MinerInit ==
  /\ chain = SubscribeToHeadChanges(ReindexFromDB(NewChain(EmptyStore, GenesisTarget, 0)))
  /\ ops = 0
  /\ last = [op |-> "start", blk |-> NoBlock, res |-> "Ok"]
  /\ net = [pc |-> "template", parent |-> NoBlock, nonce |-> 0, currentTarget |-> 0,
            blocksDir |-> <<>>, waitsFor |-> 0]

\* The target of a template on parent: the parent's bits or the CLI target,
\* replaced by Adjust's result at a retarget height.
TemplateTarget(c, parent, target) ==
  LET currentTarget == CurrentTarget(parent, target)
  IN IF (parent.height + 1) % RetargetInterval = 0 /\ parent.height > 0
     THEN LET a == Adjust(c, parent)
          IN [c |-> a.c, currentTarget |-> IF a.err THEN currentTarget ELSE Int64(a.bits[1])]
     ELSE [c |-> c, currentTarget |-> currentTarget]

MinerTemplate ==
  /\ net.pc = "template"
  /\ chain.head < MaxHeight
  /\ LET r == HeaderByHeight(chain, chain.head)
     IN /\ r.hdr # <<>>
        /\ \E t \in {TemplateTarget(r.c, r.hdr[1], chain.genesisTarget)} :
             /\ chain' = t.c
             /\ net' = [net EXCEPT !.pc = "infer", !.parent = r.hdr, !.nonce = 0,
                                   !.currentTarget = t.currentTarget]
  /\ UNCHANGED <<ops, last>>

\* One try: the inference on the template's height and the nonce, then
\* either the block (broadcast, and the miner waits) or the next nonce.
MinerInfer ==
  /\ net.pc = "infer"
  /\ net.nonce < MaxTries
  /\ LET parent == net.parent[1]
         height == parent.height + 1
         lossInt == MinerLoss(height, net.nonce)
     IN /\ last' = [op |-> "infer", blk |-> net.parent, res |-> lossInt]
        /\ IF lossInt <= net.currentTarget
           THEN \E s \in Spacings :
                  LET block == mintBlock(parent, <<net.nonce>>, parent.ts + s)[1]
                  IN net' = [net EXCEPT !.pc = "wait", !.waitsFor = height,
                                        !.blocksDir = Append(@, Encode(block))]
           ELSE net' = [net EXCEPT !.pc = "poll", !.nonce = @ + 1]
  /\ UNCHANGED <<chain, ops>>

\* The select after a failed try: a notification is taken when one waits,
\* and the template is given up when the head is above its parent.
MinerPoll ==
  /\ net.pc = "poll"
  /\ IF chain.subscribers[1] > 0
     THEN LET r == HeaderByHeight(chain, chain.head)
              advanced == r.hdr # <<>> /\ r.hdr[1].height > net.parent[1].height
          IN /\ chain' = [r.c EXCEPT !.subscribers[1] = @ - 1]
             /\ net' = [net EXCEPT !.pc = IF advanced THEN "template" ELSE "infer"]
     ELSE /\ net' = [net EXCEPT !.pc = "infer"]
          /\ UNCHANGED chain
  /\ UNCHANGED <<ops, last>>

\* The wait after a block was found: the channel is drained on a
\* notification, and the outer loop starts again when the head has reached
\* the block's height.
MinerWait ==
  /\ net.pc = "wait"
  /\ chain.subscribers[1] > 0
  /\ LET r == HeaderByHeight(chain, chain.head)
         reached == r.hdr # <<>> /\ r.hdr[1].height >= net.waitsFor
     IN /\ chain' = [r.c EXCEPT !.subscribers[1] = 0]
        /\ net' = [net EXCEPT !.pc = IF reached THEN "template" ELSE "wait"]
  /\ UNCHANGED <<ops, last>>

\* A block of a peer is imported.
PeerImport ==
  /\ ops < MaxOps
  /\ \E block \in PeerBlocks : \E o \in ImportBlock(chain, block) :
       /\ chain' = o.c
       /\ last' = [op |-> "import", blk |-> <<block>>, res |-> o.res]
  /\ ops' = ops + 1
  /\ UNCHANGED net

MinerNext ==
  MinerTemplate \/ MinerInfer \/ MinerPoll \/ MinerWait \/ ProcessBlocks \/ PeerImport

MinerSpec == MinerInit /\ [][MinerNext]_vars

Infers == net.pc = "infer" /\ last'.op = "infer" /\ net'.pc # "infer"

\* C22: once the head has changed, the miner runs no further inference on
\* the old template: an inference on a template whose parent is not the
\* head is at most the one try that a head change overtook, its
\* notification still waiting in the miner's channel, and the template is
\* rebuilt before the next one.
C22_MinerFollowsHead ==
  [][Infers => (net.parent[1].height = chain.head \/ chain.subscribers[1] > 0)]_vars

\* C34: notifying is a send that never waits (a full channel is skipped), so
\* every subscriber's channel holds at most one notification, however many
\* times the head changed since the subscriber drained it.
C34_Coalesced ==
  \A i \in DOMAIN chain.subscribers : chain.subscribers[i] \in {0, 1}

\* Two blocks were accepted since the subscriber read the head, and one
\* notification waits.
C34_Witness ==
  \E i \in DOMAIN chain.subscribers :
    /\ chain.subscribers[i] = 1
    /\ chain.head = net.observed[i] + 2
    /\ \A h \in {chain.head - 1, chain.head} :
         /\ h \in DOMAIN chain.blocks
         /\ Hash(chain.blocks[h]) \in DOMAIN chain.blockHashIndex

\* C38: every block held in sideBranches[k] has the parent hash k, in every
\* reachable state: the blocks of one entry are siblings, and none of them
\* is the parent of another block of the entry.
C38_SideBranchKeying ==
  \A k \in DOMAIN chain.sideBranches :
    LET branch == chain.sideBranches[k]
    IN \A i \in DOMAIN branch :
         /\ branch[i].parent = k
         /\ \A j \in DOMAIN branch : branch[i].parent # Hash(branch[j])

\* An entry holds two different blocks.
C38_Witness ==
  \E k \in DOMAIN chain.sideBranches :
    LET branch == chain.sideBranches[k]
    IN \E i, j \in DOMAIN branch : Hash(branch[i]) # Hash(branch[j])

\* C36: the head never goes down: no import, with the side-branch routing,
\* the reorgs and the orphan promotion it runs, leaves a head below the one
\* before it.
C36_HeadMonotonic ==
  [][ImportStep => chain'.head >= chain.head]_vars

(***************************************************************************)
(* ReindexFromDB on a running chain, after imports.                        *)
(***************************************************************************)
Reindex ==
  /\ ops < MaxOps
  /\ ~chain.wedged
  /\ chain' = ReindexFromDB(chain)
  /\ last' = [op |-> "reindex", blk |-> NoBlock, res |-> "Ok"]
  /\ ops' = ops + 1
  /\ UNCHANGED net

ReindexNext == Import \/ Reindex

ReindexSpec == Init /\ [][ReindexNext]_vars

HeldIn(m, b) == \E k \in DOMAIN m : \E i \in DOMAIN m[k] : m[k][i] = b

\* C40: a scan of the orphan pool that has finished lost no block: every
\* block the pool held when it started is on the main chain, in the side
\* branches or still in the pool, and an orphan whose parent is in no index
\* is still in the pool.
C40_ScanKeepsOrphans ==
  [][(last'.op = "scan_orphans" /\ ops' = ops + 1 /\ ~chain'.wedged) =>
       \A k \in DOMAIN chain.OrphanPool : \A i \in DOMAIN chain.OrphanPool[k] :
         LET b == chain.OrphanPool[k][i]
         IN /\ \/ \E h \in MainHeights(chain') : chain'.blocks[h] = b
               \/ HeldIn(chain'.sideBranches, b)
               \/ HeldIn(chain'.OrphanPool, b)
            /\ k \notin DOMAIN chain.blockHashIndex => HeldIn(chain'.OrphanPool, b)]_vars

(***************************************************************************)
(* Threads and locks. Each thread runs calls of ImportBlock, ScanOrphanPool *)
(* (with the goroutine it starts) and HeaderByHeight, one lock operation   *)
(* at a time. net.mu is the chain lock c.mu: w is the thread that holds it *)
(* in write mode ("none" when free), r counts each thread's read locks.    *)
(* net.orphanImportInProgress is the guard of tryImportOrphans,            *)
(* net.unlockedUnheld records an Unlock of a lock that was not held, and   *)
(* net.stack holds each thread's call frames, the innermost last: fn is    *)
(* the function, pc the position in it, block the block of an import,      *)
(* unlocked the flag of importBlockInternal's deferred function, bits the  *)
(* result of Adjust, orphans, toImport and toSideBranch the slices of      *)
(* tryImportOrphans and of the scan, groups the scan's copy of the pool.   *)
(* last records each step: the thread, the lock mode it held on c.mu       *)
(* while it changed the chain, and the fields it changed.                  *)
(***************************************************************************)
Threads == {"t1", "t2"}
MaxTasks == 3

TaskBlocks ==
  {Mined(hh) : hh \in {<<1, GenesisHash, 0>>, <<1, GenesisHash, 1>>,
                       <<2, <<1, GenesisHash, 0>>, 0>>,
                       <<3, <<1, GenesisHash, 0>>, 0>>,
                       <<3, <<2, <<1, GenesisHash, 0>>, 0>>, 0>>,
                       <<3, <<2, <<1, GenesisHash, 0>>, 0>>, 1>>}}

Frame(fn, pc, blk) ==
  [fn |-> fn, pc |-> pc, block |-> blk, unlocked |-> FALSE, bits |-> <<>>,
   orphans |-> <<>>, toImport |-> <<>>, toSideBranch |-> <<>>, groups |-> <<>>]

Top(t) == net.stack[t][Len(net.stack[t])]
At(t, fn, pc) == net.stack[t] # <<>> /\ Top(t).fn = fn /\ Top(t).pc = pc
SetTop(nt, t, f) == [nt EXCEPT !.stack[t][Len(nt.stack[t])] = f]
Push(nt, t, f) == [nt EXCEPT !.stack[t] = Append(@, f)]
Pop(nt, t) == [nt EXCEPT !.stack[t] = SubSeq(@, 1, Len(@) - 1)]

\* c.mu as Lock() and RLock() find it.
Free(mu) == mu.w = "none" /\ \A t \in Threads : mu.r[t] = 0
Readable(mu) == mu.w = "none"

Lock(mu, t) == [mu EXCEPT !.w = t]
Unlock(mu, t) == [mu EXCEPT !.w = "none"]

\* The Lock() that importBlockInternal leaves out after tryImportOrphans.
relockSkipped(mu, t) == mu

\* c.mu.Lock() after tryImportOrphans has returned.
relockAfterPromotion(mu, t) == Lock(mu, t)

\* The guard taken whatever its value.
SwapBlind(guard) == [ok |-> TRUE, guard |-> 1]

\* atomic.CompareAndSwapInt32(&orphanImportInProgress, 0, 1).
CompareAndSwap(guard) == [ok |-> guard = 0, guard |-> IF guard = 0 THEN 1 ELSE guard]

ChainFields == {"blocks", "blockHashIndex", "head", "sideBranches"}
Changed(c1, c2) == {f \in ChainFields : c1[f] # c2[f]}

Step(t, op, blk, held, c2) ==
  /\ chain' = c2
  /\ last' = [op |-> op, tid |-> t, blk |-> blk, held |-> held, wrote |-> Changed(chain, c2)]

LockInit ==
  /\ \E k \in {0, RetargetInterval - 1} :
       chain = CHOOSE c \in ImportSeq({NewChain(EmptyStore, GenesisTarget, 0)},
                                      MinedBranch(GenesisHash, 1, k, 0)) : TRUE
  /\ ops = 0
  /\ last = [op |-> "start", tid |-> "none", blk |-> NoBlock, held |-> "none", wrote |-> {}]
  /\ net = [mu |-> [w |-> "none", r |-> [t \in Threads |-> 0]],
            orphanImportInProgress |-> 0,
            unlockedUnheld |-> FALSE,
            stack |-> [t \in Threads |-> <<>>]]

(***************************************************************************)
(* ImportBlock, one critical section at a time.                            *)
(***************************************************************************)
StartImport(t) ==
  /\ net.stack[t] = <<>>
  /\ ops < MaxTasks
  /\ \E b \in TaskBlocks : net' = Push(net, t, Frame("import", "lock", <<b>>))
  /\ ops' = ops + 1
  /\ Step(t, "call", NoBlock, "none", chain)

\* c.mu.Lock() at the entry of importBlockInternal.
ImportLock(t) ==
  /\ At(t, "import", "lock")
  /\ Free(net.mu)
  /\ net' = SetTop([net EXCEPT !.mu = Lock(@, t)], t, [Top(t) EXCEPT !.pc = "check"])
  /\ Step(t, "lock", Top(t).block, "w", chain)
  /\ UNCHANGED ops

\* The block passes the existence check and the parent lookup and stands at
\* a retarget height: the lock is released around Difficulty.Adjust.
ReachesAdjust(c, block) ==
  /\ block.height \notin DOMAIN c.blocks
  /\ ParentsOf(c, block) # {}
  /\ c.blocks[CHOOSE h \in ParentsOf(c, block) : TRUE].height = block.height - 1
  /\ IsRetarget(block.height)

\* From the existence check to the first Unlock or return.
ImportCheck(t) ==
  /\ At(t, "import", "check")
  /\ LET block == Top(t).block[1]
     IN IF ReachesAdjust(chain, block)
        THEN /\ net' = SetTop([net EXCEPT !.mu = Unlock(@, t)], t,
                              [Top(t) EXCEPT !.pc = "adjust"])
             /\ Step(t, "unlock", <<block>>, "w", chain)
        ELSE \E o \in importCore(chain, block) :
               /\ net' = IF o.promote
                         THEN SetTop([net EXCEPT !.mu = Unlock(@, t)], t,
                                     [Top(t) EXCEPT !.pc = "promote", !.unlocked = TRUE])
                         ELSE SetTop(net, t, [Top(t) EXCEPT !.pc = "ret"])
               /\ Step(t, IF o.promote THEN "accept" ELSE o.res, <<block>>, "w", o.c)
  /\ UNCHANGED ops

\* Difficulty.Adjust with c.mu released; its HeaderByHeight takes the read lock.
ImportAdjust(t) ==
  /\ At(t, "import", "adjust")
  /\ Readable(net.mu)
  /\ LET a == Adjust(chain, Top(t).block[1])
     IN /\ net' = SetTop(net, t, [Top(t) EXCEPT !.pc = "relock",
                                                !.bits = <<[bits |-> a.bits, err |-> a.err]>>])
        /\ Step(t, "adjust", Top(t).block, "r", a.c)
  /\ UNCHANGED ops

\* c.mu.Lock() after Adjust, and the rest of the critical section: the error
\* return, or the writes of the block with no second existence check.
ImportRelock(t) ==
  /\ At(t, "import", "relock")
  /\ Free(net.mu)
  /\ LET block == Top(t).block[1]
         a == Top(t).bits[1]
     IN IF a.err
        THEN /\ net' = SetTop([net EXCEPT !.mu = Lock(@, t)], t, [Top(t) EXCEPT !.pc = "ret"])
             /\ Step(t, "DifficultyError", <<block>>, "w", chain)
        ELSE \E o \in acceptBlock(chain, [block EXCEPT !.bits = a.bits]) :
               /\ net' = SetTop([net EXCEPT !.mu = Unlock(Lock(@, t), t)], t,
                                [Top(t) EXCEPT !.pc = "promote", !.unlocked = TRUE])
               /\ Step(t, "accept", <<block>>, "w", o.c)
  /\ UNCHANGED ops

\* tryImportOrphans up to the end of its OrphanMu section: the guard, then
\* the entry of the pool taken out.
ImportPromote(t) ==
  /\ At(t, "import", "promote")
  /\ LET cas == CompareAndSwap(net.orphanImportInProgress)
         parentHash == Hash(Top(t).block[1])
         exists == parentHash \in DOMAIN chain.OrphanPool
     IN IF ~cas.ok
        THEN /\ net' = SetTop(net, t, [Top(t) EXCEPT !.pc = "relock2"])
             /\ Step(t, "promote_skipped", Top(t).block, "none", chain)
        ELSE /\ net' = SetTop([net EXCEPT !.orphanImportInProgress = cas.guard], t,
                              [Top(t) EXCEPT !.pc = "classify",
                                             !.orphans = IF exists THEN chain.OrphanPool[parentHash]
                                                         ELSE <<>>])
             /\ Step(t, "promote", Top(t).block, "none",
                     IF exists THEN [chain EXCEPT !.OrphanPool = MapRemove(@, parentHash)]
                     ELSE chain)
  /\ UNCHANGED ops

\* The classification of the orphans under c.mu.RLock().
ImportClassify(t) ==
  /\ At(t, "import", "classify")
  /\ Top(t).orphans # <<>> => Readable(net.mu)
  /\ LET Found(o) == o.parent \in DOMAIN chain.blockHashIndex
         Right(o) == Found(o) /\ chain.blockHashIndex[o.parent].height = o.height - 1
         Wrong(o) == Found(o) /\ ~Right(o)
     IN net' = SetTop(net, t, [Top(t) EXCEPT !.pc = "imports",
                                             !.toImport = SelectSeq(Top(t).orphans, Right),
                                             !.toSideBranch = SelectSeq(Top(t).orphans, Wrong),
                                             !.orphans = <<>>])
  /\ Step(t, "classify", Top(t).block, "r", chain)
  /\ UNCHANGED ops

\* c.ImportBlock(orphan) for the next block of toImport, c.mu not held.
ImportOrphans(t) ==
  /\ At(t, "import", "imports")
  /\ net' = IF Top(t).toImport = <<>>
            THEN SetTop(net, t, [Top(t) EXCEPT !.pc = "sidebranches"])
            ELSE Push(SetTop(net, t, [Top(t) EXCEPT !.toImport = Tail(@)]), t,
                      Frame("import", "lock", <<Head(Top(t).toImport)>>))
  /\ Step(t, IF Top(t).toImport = <<>> THEN "imports_done" ELSE "call_import",
          Top(t).block, "none", chain)
  /\ UNCHANGED ops

\* c.addToSideBranch(orphan) for the blocks of toSideBranch, c.mu not held,
\* and the deferred store that clears the guard.
ImportSideBranches(t) ==
  /\ At(t, "import", "sidebranches")
  /\ net' = SetTop([net EXCEPT !.orphanImportInProgress = 0], t,
                   [Top(t) EXCEPT !.pc = "relock2", !.toSideBranch = <<>>])
  /\ Step(t, "sidebranches", Top(t).block, "none", sideBranchAll(chain, Top(t).toSideBranch))
  /\ UNCHANGED ops

\* c.mu.Lock(); unlocked = false.
ImportRelock2(t) ==
  /\ At(t, "import", "relock2")
  /\ Free(net.mu)
  /\ net' = SetTop([net EXCEPT !.mu = relockAfterPromotion(@, t)], t,
                   [Top(t) EXCEPT !.pc = "ret", !.unlocked = FALSE])
  /\ Step(t, "relock", Top(t).block, "w", chain)
  /\ UNCHANGED ops

\* The return of importBlockInternal: the deferred function unlocks c.mu
\* unless unlocked is set.
ImportReturn(t) ==
  /\ At(t, "import", "ret")
  /\ net' = Pop(IF Top(t).unlocked THEN net
                ELSE [net EXCEPT !.mu = Unlock(@, t),
                                 !.unlockedUnheld = @ \/ net.mu.w # t], t)
  /\ Step(t, "return", Top(t).block, "none", chain)
  /\ UNCHANGED ops

(***************************************************************************)
(* ScanOrphanPool and its goroutine.                                       *)
(***************************************************************************)
StartScan(t) ==
  /\ net.stack[t] = <<>>
  /\ ops < MaxTasks
  /\ net' = Push(net, t, Frame("scan", "scan", NoBlock))
  /\ ops' = ops + 1
  /\ Step(t, "call", NoBlock, "none", chain)

\* The pool copied and replaced by an empty map under OrphanMu.
ScanCopy(t) ==
  /\ At(t, "scan", "scan")
  /\ net' = IF DOMAIN chain.OrphanPool = {} THEN Pop(net, t)
            ELSE SetTop(net, t, [Top(t) EXCEPT !.pc = "walk", !.groups = chain.OrphanPool])
  /\ Step(t, "scan_copy", NoBlock, "none", [chain EXCEPT !.OrphanPool = <<>>])
  /\ UNCHANGED ops

\* The next group of the copy: c.mu.RLock().
ScanGroupLock(t) ==
  /\ At(t, "scan", "walk")
  /\ IF DOMAIN Top(t).groups = {}
     THEN net' = Pop(net, t)
     ELSE /\ Readable(net.mu)
          /\ \E k \in DOMAIN Top(t).groups :
               net' = SetTop([net EXCEPT !.mu.r[t] = @ + 1], t,
                             [Top(t) EXCEPT !.pc = "group",
                                            !.orphans = Top(t).groups[k],
                                            !.groups = MapRemove(@, k)])
  /\ Step(t, "scan_group", NoBlock, "r", chain)
  /\ UNCHANGED ops

\* One orphan of the group, the read lock held; c.mu.RUnlock() after the last.
ScanOrphan(t) ==
  /\ At(t, "scan", "group")
  /\ IF Top(t).orphans = <<>>
     THEN /\ net' = SetTop([net EXCEPT !.mu.r[t] = @ - 1], t, [Top(t) EXCEPT !.pc = "walk"])
          /\ Step(t, "scan_unlock", NoBlock, "r", chain)
     ELSE LET orphan == Head(Top(t).orphans)
              found == orphan.parent \in DOMAIN chain.blockHashIndex
              rest == SetTop(net, t, [Top(t) EXCEPT !.orphans = Tail(@)])
          IN IF found /\ chain.blockHashIndex[orphan.parent].height = orphan.height - 1
             THEN /\ net' = Push(rest, t, Frame("import", "lock", <<orphan>>))
                  /\ Step(t, "call_import", <<orphan>>, "r", chain)
             ELSE /\ net' = rest
                  /\ Step(t, "scan_orphan", <<orphan>>, "r",
                          IF found THEN addToSideBranch(chain, orphan) ELSE chain)
  /\ UNCHANGED ops

(***************************************************************************)
(* HeaderByHeight called by a reader: one read-locked section.             *)
(***************************************************************************)
ReadHeader(t) ==
  /\ net.stack[t] = <<>>
  /\ ops < MaxTasks
  /\ Readable(net.mu)
  /\ \E h \in 0 .. MaxHeight :
       Step(t, "header_at", NoBlock, "r", HeaderByHeight(chain, h).c)
  /\ ops' = ops + 1
  /\ UNCHANGED net

LockNext ==
  \E t \in Threads :
    \/ StartImport(t)
    \/ ImportLock(t)
    \/ ImportCheck(t)
    \/ ImportAdjust(t)
    \/ ImportRelock(t)
    \/ ImportPromote(t)
    \/ ImportClassify(t)
    \/ ImportOrphans(t)
    \/ ImportSideBranches(t)
    \/ ImportRelock2(t)
    \/ ImportReturn(t)
    \/ StartScan(t)
    \/ ScanCopy(t)
    \/ ScanGroupLock(t)
    \/ ScanOrphan(t)
    \/ ReadHeader(t)

LockSpec == LockInit /\ [][LockNext]_vars

\* C37: a step of ImportBlock that writes its block into by_height finds the
\* height empty (or holding that very block): import never replaces the block
\* of an occupied height, whatever the interleaving of concurrent imports.
C37_NoOverwrite ==
  [][(last'.op = "accept" /\ chain' # chain) =>
       LET block == last'.blk[1]
       IN block.height \in DOMAIN chain.blocks =>
            Hash(chain.blocks[block.height]) = Hash(block)]_vars

\* C31: ImportBlock is never called by a thread that holds the chain lock, in
\* read or in write mode: a thread at the entry of import holds no lock on c.mu.
C31_ImportOutsideLock ==
  \A t \in Threads :
    At(t, "import", "lock") => net.mu.r[t] = 0 /\ net.mu.w # t

\* C32: every step that changes by_height, by_hash, head or side_branches is
\* taken by a thread that holds the chain lock in write mode.
C32_SingleWriter ==
  [][last'.wrote # {} => last'.held = "w"]_vars

\* The calls of tryImportOrphans that are past the guard and have not returned.
Promoting ==
  {<<t, i>> \in Threads \X (1 .. MaxTasks + MaxHeight + 1) :
     /\ i <= Len(net.stack[t])
     /\ net.stack[t][i].fn = "import"
     /\ net.stack[t][i].pc \in {"classify", "imports", "sidebranches"}}

\* C33: at most one call of tryImportOrphans is past the guard at any time, the
\* guard is set exactly while one is, and a call that finds the guard set
\* returns with the orphan pool as it found it.
C33_SingleFlight ==
  /\ [](/\ Cardinality(Promoting) <= 1
        /\ net.orphanImportInProgress = Cardinality(Promoting))
  /\ [][last'.op = "promote_skipped" => chain'.OrphanPool = chain.OrphanPool]_vars

\* A call has found the guard set while another call was promoting orphans.
C33_Witness ==
  /\ last.op = "promote_skipped"
  /\ Cardinality(Promoting) = 1
  /\ net.orphanImportInProgress = 1

====
